---- MODULE Spec2Model ----
(***************************************************************************)
(* Model of the notification subsystem of the water-supply client:         *)
(*   - NotificationManager (services/notificationManager): initialize,     *)
(*     the socket.io channel and its handlers, markAsRead / markAllAsRead, *)
(*     the visibility poll, the listener map, disconnect;                   *)
(*   - the transport behaviour the manager configures (reconnection).      *)
(* JavaScript values that the code stores without checking (a count that   *)
(* is absent from a payload, the NaN produced by incrementing it) are kept *)
(* as tagged values so that arithmetic on them behaves as in the runtime.  *)
(***************************************************************************)
EXTENDS Integers, Sequences, FiniteSets, TLC

(* ------------------------------- bounds -------------------------------- *)
MaxCount == 2          \* largest count a payload carries; cap on local increments
MaxPending == 1        \* calls of one kind that may await their fetch together
MaxListeners == 2      \* registrations kept per event in the listener map
MaxInbox == 2          \* messages that may wait for delivery to the service worker
MaxWindows == 2        \* open windows of the application a click may find

(* -------------------------- program constants -------------------------- *)
maxInitializationAttempts == 3
reconnectionAttempts == 5
CatchUpLimit == 3

(* ------------------------------ JS values ------------------------------ *)
Num(n) == [t |-> "number", v |-> n]
Undefined == [t |-> "undefined", v |-> 0]
NaN == [t |-> "NaN", v |-> 0]
Notif(n) == [t |-> "notification", v |-> n]
User(n) == [t |-> "user", v |-> n]
None == [t |-> "none", v |-> 0]

IsNumber(x) == x.t = "number"

\* x || 0
OrZero(x) == IF IsNumber(x) /\ x.v # 0 THEN x ELSE Num(0)

\* x++ (the stored result)
Increment(x) == IF IsNumber(x) THEN Num(x.v + 1) ELSE NaN

\* x > 0
GreaterThanZero(x) == IsNumber(x) /\ x.v > 0

\* x-- (the stored result)
Decrement(x) == IF IsNumber(x) THEN Num(x.v - 1) ELSE NaN

(* ------------------------------- inputs -------------------------------- *)
Users == {1, 2}
Notifications == {1, 2}
Callbacks == {"cbA", "cbB"}
\* an array of n notifications
List(n) == [t |-> "list", v |-> n]

\* the count field of a server payload: a non-negative integer, or absent
CountPayloads == {Num(n) : n \in 0..MaxCount} \cup {Undefined}

\* the two read-only queries of the manager
Queries == {"getUnreadNotifications", "getNotificationHistory"}

BusEvents == {"unread-count-updated", "notification", "show-notification",
              "disconnected", "reconnected", "reconnect-failed", "all-read",
              "notification-read", "error", "sw-update-available"}

VARIABLES
  socket,                  \* this.socket: 0 (null) or an index into sockets
  deviceId,                \* this.deviceId: 0 (null) or a device id
  userId,                  \* this.userId: 0 (null) or a user
  registration,            \* this.registration: "null", "registered", "active"
  vapidPublicKey,          \* this.vapidPublicKey present
  listeners,               \* this.listeners: event -> sequence of callbacks
  unreadCount,             \* this.unreadCount (a JS value)
  initializationAttempts,  \* this.initializationAttempts
  isInitializing,          \* this.isInitializing
  initPc,                  \* position of the accepted initialize call
  initFailures,            \* initialize calls that ended in the outer catch
  call,                    \* what the accepted initialize call has done so far
  sockets,                 \* the socket.io sockets created so far
  pendingReads,            \* markAsRead calls awaiting their fetch
  pendingAlls,             \* markAllAsRead calls awaiting their fetch
  pendingPolls,            \* fetchMissedNotifications calls awaiting their fetch
  pendingGets,             \* getUnreadNotifications / getNotificationHistory calls awaiting
  visible,                 \* document.visibilityState = 'visible'
  swListeners,             \* 'message' listeners added on navigator.serviceWorker
  visListeners,            \* 'visibilitychange' listeners added on document
  platform,                \* capabilities and permission state of the browser
  failedSignals,           \* emit('reconnect-failed') calls made so far
  out,                     \* effects of the last step, in program order
  last,                    \* the last step: operation, argument, unreadCount before
  prev,                    \* the step before the last, when it was an absolute correction
  allReadRun,              \* markAllAsRead calls completed in a row (at most 2 counted)
  swState,                 \* lifecycle of the service worker (sw.js)
  swCaches,                \* CacheStorage: cache name -> does it exist, what it holds
  swDeleting,              \* caches.delete() calls of the activate handler not yet resolved
  swClaimed,               \* self.clients.claim() has been called
  swBadge,                 \* the app badge as set through the worker's navigator
  swInbox,                 \* messages posted to the worker, not yet delivered
  swPending,               \* fetchNewNotifications calls awaiting their fetch
  swPlatform,              \* what the worker's platform provides
  hook                     \* useNotifications: state, effect bookkeeping of one component

vars == <<socket, deviceId, userId, registration, vapidPublicKey, listeners,
          unreadCount, initializationAttempts, isInitializing, initPc,
          initFailures, call, sockets, pendingReads, pendingAlls, pendingPolls,
          pendingGets, visible, swListeners, visListeners, platform, failedSignals,
          out, last, prev, allReadRun, swState, swCaches, swDeleting,
          swClaimed, swBadge, swInbox, swPending, swPlatform, hook>>

(* ------------------------------ effects -------------------------------- *)
Effect(ch, ev, to, arg) == [ch |-> ch, ev |-> ev, to |-> to, arg |-> arg]

\* emit(event, arg): every registered callback, in registration order
Emit(event, arg) ==
  <<Effect("emit", event, "", arg)>> \o
  [i \in 1..Len(listeners[event]) |-> Effect("call", event, listeners[event][i], arg)]

\* updateBadge(count)
UpdateBadge(count) ==
  (IF platform.badge
     THEN IF GreaterThanZero(count)
            THEN <<Effect("navigator", "setAppBadge", "", count)>>
            ELSE <<Effect("navigator", "clearAppBadge", "", None)>>
     ELSE <<>>) \o
  (IF registration = "active"
     THEN <<Effect("worker", "UPDATE_BADGE", "", count)>>
     ELSE <<>>)

\* this.socket?.emit(ev, arg)
SocketEmit(ev, arg) ==
  IF socket # 0 THEN <<Effect("socket", ev, "", arg)>> ELSE <<>>

\* fetch(url, {method: 'POST', ...}) / fetch(url)
Fetch(path, arg) == <<Effect("http", path, "", arg)>>

\* the promise returned by a public operation is fulfilled with value
Fulfilled(op, value) == <<Effect("fulfilled", op, "", value)>>

\* the events that carry an absolute count
Corrections == {"connection:verified", "notification:badge-update"}

\* bookkeeping of the step just taken
Step(op, arg) ==
  /\ last' = [op |-> op, arg |-> arg, before |-> unreadCount]
  /\ prev' = IF last.op \in Corrections
              THEN [op |-> last.op, arg |-> last.arg]
              ELSE [op |-> "other", arg |-> None]
  /\ allReadRun' =
       IF op \in {"markAllAsRead:resolved", "markAllAsRead:rejected"}
         THEN (IF allReadRun < 2 THEN allReadRun + 1 ELSE 2)
       ELSE IF op = "markAllAsRead" THEN allReadRun
       ELSE 0

(* ------------------------------- frames -------------------------------- *)
initVars == <<deviceId, userId, registration, vapidPublicKey,
              initializationAttempts, isInitializing, initPc, initFailures,
              call>>
domVars == <<visible, swListeners, visListeners, platform>>
callVars == <<pendingReads, pendingAlls, pendingPolls, pendingGets>>
channelVars == <<socket, sockets, failedSignals>>
\* the state of the service worker, which runs in its own context
workerVars == <<swState, swCaches, swDeleting, swClaimed, swBadge, swInbox,
                swPending, swPlatform>>
\* the fields of the notification manager and the page it runs in
managerVars == <<initVars, domVars, callVars, channelVars, listeners, unreadCount>>

(* --------------------- inbound events of the channel ------------------- *)
\* a socket whose handlers can still be invoked by the transport
Open(s) == s \in 1..Len(sockets) /\ sockets[s].st = "connected"

\* variant of the connection:verified handler that adds the reported count
ConnectionVerifiedAdds(s, count) ==
  /\ Open(s)
  /\ unreadCount' = IF IsNumber(unreadCount) /\ IsNumber(count)
                      THEN Num(unreadCount.v + count.v) ELSE OrZero(count)
  /\ out' = Emit("unread-count-updated", unreadCount') \o UpdateBadge(unreadCount')
  /\ Step("connection:verified", count)
  /\ UNCHANGED <<initVars, domVars, callVars, channelVars, listeners>>
  /\ UNCHANGED <<workerVars, hook>>

\* socket.on('connection:verified', data => ...)
ConnectionVerified(s, count) ==
  /\ Open(s)
  /\ unreadCount' = OrZero(count)
  /\ out' = Emit("unread-count-updated", unreadCount') \o UpdateBadge(unreadCount')
  /\ Step("connection:verified", count)
  /\ UNCHANGED <<initVars, domVars, callVars, channelVars, listeners>>
  /\ UNCHANGED <<workerVars, hook>>

\* socket.on('notification:new', notification => ...)
NotificationNew(s, n) ==
  /\ Open(s)
  /\ IsNumber(unreadCount) => unreadCount.v < MaxCount
  /\ unreadCount' = Increment(unreadCount)
  /\ out' = Emit("unread-count-updated", unreadCount') \o
            UpdateBadge(unreadCount') \o
            (IF visible THEN Emit("show-notification", Notif(n)) ELSE <<>>) \o
            <<Effect("audio", "play", "", None)>> \o
            Emit("notification", Notif(n))
  /\ Step("notification:new", Notif(n))
  /\ UNCHANGED <<initVars, domVars, callVars, channelVars, listeners>>
  /\ UNCHANGED <<workerVars, hook>>

\* variant of the read-sync handler that also counts the notification as read
NotificationReadSyncCounts(s, n) ==
  /\ Open(s)
  /\ unreadCount' = IF GreaterThanZero(unreadCount)
                      THEN Decrement(unreadCount) ELSE unreadCount
  /\ out' = Emit("notification-read", Notif(n)) \o UpdateBadge(unreadCount')
  /\ Step("notification:read-sync", Notif(n))
  /\ UNCHANGED <<initVars, domVars, callVars, channelVars, listeners>>
  /\ UNCHANGED <<workerVars, hook>>

\* socket.on('notification:read-sync', data => ...)
NotificationReadSync(s, n) ==
  /\ Open(s)
  /\ out' = Emit("notification-read", Notif(n))
  /\ Step("notification:read-sync", Notif(n))
  /\ UNCHANGED <<initVars, domVars, callVars, channelVars, listeners, unreadCount>>
  /\ UNCHANGED <<workerVars, hook>>

\* socket.on('notification:all-read', () => ...)
NotificationAllRead(s) ==
  /\ Open(s)
  /\ unreadCount' = Num(0)
  /\ out' = Emit("unread-count-updated", Num(0)) \o UpdateBadge(Num(0)) \o
            Emit("all-read", None)
  /\ Step("notification:all-read", None)
  /\ UNCHANGED <<initVars, domVars, callVars, channelVars, listeners>>
  /\ UNCHANGED <<workerVars, hook>>

\* variant of the badge-update handler that keeps the larger of the two counts
NotificationBadgeUpdateMax(s, count) ==
  /\ Open(s)
  /\ unreadCount' = IF IsNumber(unreadCount) /\ IsNumber(count) /\ unreadCount.v > count.v
                      THEN unreadCount ELSE count
  /\ out' = Emit("unread-count-updated", count) \o UpdateBadge(count)
  /\ Step("notification:badge-update", count)
  /\ UNCHANGED <<initVars, domVars, callVars, channelVars, listeners>>
  /\ UNCHANGED <<workerVars, hook>>

\* socket.on('notification:badge-update', data => ...)
NotificationBadgeUpdate(s, count) ==
  /\ Open(s)
  /\ unreadCount' = count
  /\ out' = Emit("unread-count-updated", count) \o UpdateBadge(count)
  /\ Step("notification:badge-update", count)
  /\ UNCHANGED <<initVars, domVars, callVars, channelVars, listeners>>
  /\ UNCHANGED <<workerVars, hook>>

(* ------------------- markAsRead / markAsClicked / markAllAsRead -------- *)
\* variant of markAsRead that uses the HTTP write only when the socket is not connected
MarkAsReadFallbackOnly(n) ==
  /\ pendingReads < MaxPending
  /\ pendingReads' = pendingReads + 1
  /\ out' = SocketEmit("notification:mark-read", Notif(n)) \o
            (IF socket # 0 /\ sockets[socket].st = "connected"
               THEN <<>> ELSE Fetch("/notifications/mark-read", Notif(n)))
  /\ Step("markAsRead", Notif(n))
  /\ UNCHANGED <<initVars, domVars, channelVars, listeners, unreadCount,
                 pendingAlls, pendingPolls, pendingGets>>
  /\ UNCHANGED <<workerVars, hook>>

\* variant of markAsRead that applies the decrement before the await
MarkAsReadOptimistic(n) ==
  /\ pendingReads < MaxPending
  /\ pendingReads' = pendingReads + 1
  /\ unreadCount' = IF GreaterThanZero(unreadCount)
                      THEN Decrement(unreadCount) ELSE unreadCount
  /\ out' = SocketEmit("notification:mark-read", Notif(n)) \o
            Fetch("/notifications/mark-read", Notif(n))
  /\ Step("markAsRead", Notif(n))
  /\ UNCHANGED <<initVars, domVars, channelVars, listeners,
                 pendingAlls, pendingPolls, pendingGets>>
  /\ UNCHANGED <<workerVars, hook>>

\* markAsRead(id) up to its await: channel notice, then the HTTP write
MarkAsRead(n) ==
  /\ pendingReads < MaxPending
  /\ pendingReads' = pendingReads + 1
  /\ out' = SocketEmit("notification:mark-read", Notif(n)) \o
            Fetch("/notifications/mark-read", Notif(n))
  /\ Step("markAsRead", Notif(n))
  /\ UNCHANGED <<initVars, domVars, channelVars, listeners, unreadCount,
                 pendingAlls, pendingPolls, pendingGets>>
  /\ UNCHANGED <<workerVars, hook>>

\* markAsClicked(id): the clicked notice, then markAsRead(id) up to its await
MarkAsClicked(n) ==
  /\ pendingReads < MaxPending
  /\ pendingReads' = pendingReads + 1
  /\ out' = SocketEmit("notification:clicked", Notif(n)) \o
            SocketEmit("notification:mark-read", Notif(n)) \o
            Fetch("/notifications/mark-read", Notif(n))
  /\ Step("markAsClicked", Notif(n))
  /\ UNCHANGED <<initVars, domVars, channelVars, listeners, unreadCount,
                 pendingAlls, pendingPolls, pendingGets>>
  /\ UNCHANGED <<workerVars, hook>>

\* variant of the markAsRead continuation that lowers the count without
\* telling anyone
MarkAsReadResolvedSilent ==
  /\ pendingReads > 0
  /\ pendingReads' = pendingReads - 1
  /\ unreadCount' = IF GreaterThanZero(unreadCount)
                      THEN Decrement(unreadCount) ELSE unreadCount
  /\ out' = Fulfilled("markAsRead", None)
  /\ Step("markAsRead:resolved", None)
  /\ UNCHANGED <<initVars, domVars, channelVars, listeners, pendingAlls, pendingPolls, pendingGets>>
  /\ UNCHANGED <<workerVars, hook>>

\* the fetch of a markAsRead call resolves (any HTTP status): the code after the
\* await, to the end of the try block; a markAsClicked call that awaits this
\* markAsRead call is fulfilled with it
MarkAsReadResolved ==
  /\ pendingReads > 0
  /\ pendingReads' = pendingReads - 1
  /\ IF GreaterThanZero(unreadCount)
       THEN /\ unreadCount' = Decrement(unreadCount)
            /\ out' = Emit("unread-count-updated", unreadCount') \o
                      UpdateBadge(unreadCount') \o Fulfilled("markAsRead", None)
       ELSE /\ unreadCount' = unreadCount
            /\ out' = Fulfilled("markAsRead", None)
  /\ Step("markAsRead:resolved", None)
  /\ UNCHANGED <<initVars, domVars, channelVars, listeners, pendingAlls, pendingPolls, pendingGets>>
  /\ UNCHANGED <<workerVars, hook>>

\* the fetch of a markAsRead call rejects: the catch block
MarkAsReadRejected ==
  /\ pendingReads > 0
  /\ pendingReads' = pendingReads - 1
  /\ out' = Fulfilled("markAsRead", None)
  /\ Step("markAsRead:rejected", None)
  /\ UNCHANGED <<initVars, domVars, channelVars, listeners, unreadCount,
                 pendingAlls, pendingPolls, pendingGets>>
  /\ UNCHANGED <<workerVars, hook>>

\* markAllAsRead() up to its await
MarkAllAsRead ==
  /\ pendingAlls < MaxPending
  /\ pendingAlls' = pendingAlls + 1
  /\ out' = SocketEmit("notification:mark-all-read", None) \o
            Fetch("/notifications/mark-all-read", None)
  /\ Step("markAllAsRead", None)
  /\ UNCHANGED <<initVars, domVars, channelVars, listeners, unreadCount,
                 pendingReads, pendingPolls, pendingGets>>
  /\ UNCHANGED <<workerVars, hook>>

\* variant of the markAllAsRead continuation that lowers the count by one
MarkAllAsReadResolvedByOne ==
  /\ pendingAlls > 0
  /\ pendingAlls' = pendingAlls - 1
  /\ unreadCount' = IF GreaterThanZero(unreadCount)
                      THEN Decrement(unreadCount) ELSE unreadCount
  /\ out' = Emit("unread-count-updated", unreadCount') \o UpdateBadge(unreadCount') \o
            Fulfilled("markAllAsRead", None)
  /\ Step("markAllAsRead:resolved", None)
  /\ UNCHANGED <<initVars, domVars, channelVars, listeners, pendingReads, pendingPolls, pendingGets>>
  /\ UNCHANGED <<workerVars, hook>>

\* the fetch of a markAllAsRead call resolves: the code after the await
MarkAllAsReadResolved ==
  /\ pendingAlls > 0
  /\ pendingAlls' = pendingAlls - 1
  /\ unreadCount' = Num(0)
  /\ out' = Emit("unread-count-updated", Num(0)) \o UpdateBadge(Num(0)) \o
            Fulfilled("markAllAsRead", None)
  /\ Step("markAllAsRead:resolved", None)
  /\ UNCHANGED <<initVars, domVars, channelVars, listeners, pendingReads, pendingPolls, pendingGets>>
  /\ UNCHANGED <<workerVars, hook>>

\* the fetch of a markAllAsRead call rejects: the catch block
MarkAllAsReadRejected ==
  /\ pendingAlls > 0
  /\ pendingAlls' = pendingAlls - 1
  /\ out' = Fulfilled("markAllAsRead", None)
  /\ Step("markAllAsRead:rejected", None)
  /\ UNCHANGED <<initVars, domVars, channelVars, listeners, unreadCount,
                 pendingReads, pendingPolls, pendingGets>>
  /\ UNCHANGED <<workerVars, hook>>

(* --------------------------- visibility poll --------------------------- *)
\* document 'visibilitychange': every listener added by initialize runs; each
\* calls fetchMissedNotifications() when the document became visible (the
\* bound applies to the polls already pending, not to the listeners)
VisibilityChange ==
  /\ visible' = ~visible
  /\ IF visible' /\ visListeners > 0
       THEN /\ pendingPolls < MaxPending
            /\ pendingPolls' = pendingPolls + visListeners
            /\ out' = [i \in 1..visListeners |->
                         Effect("http", "/notifications/pending", "", User(userId))]
       ELSE /\ pendingPolls' = pendingPolls
            /\ out' = <<>>
  /\ Step("visibilitychange", None)
  /\ UNCHANGED <<initVars, channelVars, listeners, unreadCount, pendingReads,
                 pendingAlls, pendingGets, swListeners, visListeners, platform>>
  /\ UNCHANGED <<workerVars, hook>>

\* the notifications shown as catch-up: data.data.slice(0, 3)
CatchUp(len) == [i \in 1..(IF len < CatchUpLimit THEN len ELSE CatchUpLimit) |-> Notif(i)]

RECURSIVE EmitAll(_, _)
EmitAll(event, args) ==
  IF args = <<>> THEN <<>>
  ELSE Emit(event, Head(args)) \o EmitAll(event, Tail(args))

\* the pending fetch resolves with {success, data (of length len), count}
FetchMissedResolved(success, len, count) ==
  /\ pendingPolls > 0
  /\ pendingPolls' = pendingPolls - 1
  /\ IF success /\ len > 0
       THEN /\ unreadCount' = count
            /\ out' = EmitAll("show-notification", CatchUp(len)) \o
                      Emit("unread-count-updated", count) \o UpdateBadge(count)
       ELSE /\ unreadCount' = unreadCount
            /\ out' = <<>>
  /\ Step("fetchMissedNotifications:resolved",
          IF success THEN count ELSE None)
  /\ UNCHANGED <<initVars, domVars, channelVars, listeners, pendingReads, pendingAlls, pendingGets>>
  /\ UNCHANGED <<workerVars, hook>>

\* the pending fetch rejects, or its body is not JSON: the catch block
FetchMissedRejected ==
  /\ pendingPolls > 0
  /\ pendingPolls' = pendingPolls - 1
  /\ out' = <<>>
  /\ Step("fetchMissedNotifications:rejected", None)
  /\ UNCHANGED <<initVars, domVars, channelVars, listeners, unreadCount,
                 pendingReads, pendingAlls, pendingGets>>
  /\ UNCHANGED <<workerVars, hook>>

(* ---------------------- messages from the worker ----------------------- *)
\* handleNotificationClick(id, url): markAsClicked(id) up to its await, then
\* window.location.href = url (the worker always posts a url)
HandleNotificationClick(n) ==
  SocketEmit("notification:clicked", Notif(n)) \o
  SocketEmit("notification:mark-read", Notif(n)) \o
  Fetch("/notifications/mark-read", Notif(n)) \o
  <<Effect("window", "location.href", "", None)>>

RECURSIVE Repeat(_, _)
\* what k listeners of the same kind do, one after the other
Repeat(k, effects) == IF k = 0 THEN <<>> ELSE effects \o Repeat(k - 1, effects)

\* navigator.serviceWorker 'message' with event.data.type = type: every
\* listener added by initialize runs
ServiceWorkerMessage(type, n) ==
  /\ swListeners > 0
  /\ IF type = "NOTIFICATION_CLICKED"
       THEN /\ pendingReads < MaxPending
            /\ pendingReads' = pendingReads + swListeners
            /\ out' = Repeat(swListeners, HandleNotificationClick(n))
       ELSE /\ pendingReads' = pendingReads
            /\ out' = <<>>
  /\ Step("serviceWorker:message", [t |-> type, v |-> n])
  /\ UNCHANGED <<initVars, domVars, channelVars, listeners, unreadCount,
                 pendingAlls, pendingPolls, pendingGets>>
  /\ UNCHANGED <<workerVars, hook>>

(* ------------- getUnreadNotifications / getNotificationHistory --------- *)
\* the endpoint a query reads
QueryPath(q) ==
  IF q = "getUnreadNotifications" THEN "/notifications/pending"
  ELSE "/notifications/history"

\* the envelope {success, data (of length len)} of a response
Envelope(success, len) == [t |-> IF success THEN "success" ELSE "failure", v |-> len]

\* getUnreadNotifications() / getNotificationHistory() up to the await of fetch
Query(q) ==
  /\ pendingGets[q] < MaxPending
  /\ pendingGets' = [pendingGets EXCEPT ![q] = @ + 1]
  /\ out' = Fetch(QueryPath(q), User(userId))
  /\ Step(q, None)
  /\ UNCHANGED <<initVars, domVars, channelVars, listeners, unreadCount,
                 pendingReads, pendingAlls, pendingPolls>>
  /\ UNCHANGED <<workerVars, hook>>

\* variant of the continuation that returns data.data whatever success says
QueryResolvedIgnoresSuccess(q, success, len) ==
  /\ pendingGets[q] > 0
  /\ pendingGets' = [pendingGets EXCEPT ![q] = @ - 1]
  /\ out' = Fulfilled(q, List(len))
  /\ Step("query:resolved", Envelope(success, len))
  /\ UNCHANGED <<initVars, domVars, channelVars, listeners, unreadCount,
                 pendingReads, pendingAlls, pendingPolls>>
  /\ UNCHANGED <<workerVars, hook>>

\* fetch and response.json() resolve: return data.success ? data.data : []
QueryResolved(q, success, len) ==
  /\ pendingGets[q] > 0
  /\ pendingGets' = [pendingGets EXCEPT ![q] = @ - 1]
  /\ out' = Fulfilled(q, IF success THEN List(len) ELSE List(0))
  /\ Step("query:resolved", Envelope(success, len))
  /\ UNCHANGED <<initVars, domVars, channelVars, listeners, unreadCount,
                 pendingReads, pendingAlls, pendingPolls>>
  /\ UNCHANGED <<workerVars, hook>>

\* fetch rejects, or the body is not JSON: the catch block returns []
QueryRejected(q) ==
  /\ pendingGets[q] > 0
  /\ pendingGets' = [pendingGets EXCEPT ![q] = @ - 1]
  /\ out' = Fulfilled(q, List(0))
  /\ Step("query:rejected", None)
  /\ UNCHANGED <<initVars, domVars, channelVars, listeners, unreadCount,
                 pendingReads, pendingAlls, pendingPolls>>
  /\ UNCHANGED <<workerVars, hook>>

(* ---------------------------- listener map ----------------------------- *)
\* on(event, callback)
On(event, cb) ==
  /\ Len(listeners[event]) < MaxListeners
  /\ listeners' = [listeners EXCEPT ![event] = Append(@, cb)]
  /\ out' = <<>>
  /\ Step("on", [t |-> event, v |-> 0, cb |-> cb])
  /\ UNCHANGED <<initVars, domVars, callVars, channelVars, unreadCount>>
  /\ UNCHANGED <<workerVars, hook>>

\* listeners.indexOf(callback)
IndexOf(seq, cb) ==
  IF \E i \in 1..Len(seq) : seq[i] = cb
    THEN CHOOSE i \in 1..Len(seq) : seq[i] = cb /\ \A j \in 1..(i - 1) : seq[j] # cb
    ELSE 0

\* listeners.splice(index, 1)
Splice(seq, index) == SubSeq(seq, 1, index - 1) \o SubSeq(seq, index + 1, Len(seq))

\* variant of off that removes every registration of the callback
OffEvery(event, cb) ==
  /\ listeners' = [listeners EXCEPT ![event] = SelectSeq(@, LAMBDA c : c # cb)]
  /\ out' = <<>>
  /\ Step("off", [t |-> event, v |-> 0, cb |-> cb])
  /\ UNCHANGED <<initVars, domVars, callVars, channelVars, unreadCount>>
  /\ UNCHANGED <<workerVars, hook>>

\* off(event, callback)
Off(event, cb) ==
  /\ listeners' = [listeners EXCEPT ![event] =
                     IF IndexOf(@, cb) > 0 THEN Splice(@, IndexOf(@, cb)) ELSE @]
  /\ out' = <<>>
  /\ Step("off", [t |-> event, v |-> 0, cb |-> cb])
  /\ UNCHANGED <<initVars, domVars, callVars, channelVars, unreadCount>>
  /\ UNCHANGED <<workerVars, hook>>

(* ------------------------------ the channel ---------------------------- *)
NewSocket == [st |-> "connecting", attempts |-> 0]

\* connectWebSocket(): the socket it leaves in this.socket and the sockets that exist
ConnectWebSocket ==
  IF socket # 0 /\ sockets[socket].st = "connected"
    THEN UNCHANGED <<socket, sockets>>
    ELSE /\ sockets' = Append(sockets, NewSocket)
         /\ socket' = Len(sockets) + 1

\* socket.on('connect', ...): this.socket?.emit('authenticate', ...)
Authenticate ==
  IF socket # 0
    THEN <<[ch |-> "socket", ev |-> "authenticate", to |-> "",
            arg |-> [t |-> "auth", v |-> userId, deviceId |-> deviceId]]>>
    ELSE <<>>

\* the transport of socket s opens for the first time: 'connect'
TransportConnect(s) ==
  /\ s \in 1..Len(sockets) /\ sockets[s].st = "connecting"
  /\ sockets' = [sockets EXCEPT ![s].st = "connected"]
  /\ out' = Authenticate
  /\ Step("connect", None)
  /\ UNCHANGED <<initVars, domVars, callVars, listeners, unreadCount, socket,
                 failedSignals>>
  /\ UNCHANGED <<workerVars, hook>>

\* the first connection attempt of socket s fails: 'connect_error' (logged),
\* and the manager of the socket starts reconnecting
ConnectError(s) ==
  /\ s \in 1..Len(sockets) /\ sockets[s].st = "connecting"
  /\ sockets' = [sockets EXCEPT ![s].st = "reconnecting"]
  /\ out' = <<>>
  /\ Step("connect_error", None)
  /\ UNCHANGED <<initVars, domVars, callVars, listeners, unreadCount, socket,
                 failedSignals>>
  /\ UNCHANGED <<workerVars, hook>>

\* an open transport drops: 'disconnect' (transport close, ping timeout);
\* the manager of the socket starts reconnecting
TransportDrop(s) ==
  /\ Open(s)
  /\ sockets' = [sockets EXCEPT ![s] = [st |-> "reconnecting", attempts |-> 0]]
  /\ out' = Emit("disconnected", None)
  /\ Step("disconnect", None)
  /\ UNCHANGED <<initVars, domVars, callVars, listeners, unreadCount, socket,
                 failedSignals>>
  /\ UNCHANGED <<workerVars, hook>>

\* the server closes the socket: 'disconnect' (io server disconnect), no reconnection
ServerDisconnect(s) ==
  /\ Open(s)
  /\ sockets' = [sockets EXCEPT ![s].st = "disconnected"]
  /\ out' = Emit("disconnected", None)
  /\ Step("disconnect", None)
  /\ UNCHANGED <<initVars, domVars, callVars, listeners, unreadCount, socket,
                 failedSignals>>
  /\ UNCHANGED <<workerVars, hook>>

\* a reconnection attempt of socket s succeeds: 'connect', then 'reconnect'
ReconnectSucceeded(s) ==
  /\ s \in 1..Len(sockets) /\ sockets[s].st = "reconnecting"
  /\ sockets[s].attempts < reconnectionAttempts
  /\ sockets' = [sockets EXCEPT ![s] = [st |-> "connected", attempts |-> 0]]
  /\ out' = Authenticate \o Emit("reconnected", None)
  /\ Step("reconnect", None)
  /\ UNCHANGED <<initVars, domVars, callVars, listeners, unreadCount, socket,
                 failedSignals>>
  /\ UNCHANGED <<workerVars, hook>>

\* a reconnection attempt of socket s fails; when that was the last of the
\* reconnectionAttempts configured in io(...), the transport gives up and
\* socket.on('reconnect_failed', ...) runs
ReconnectAttemptFailed(s) ==
  /\ s \in 1..Len(sockets) /\ sockets[s].st = "reconnecting"
  /\ sockets[s].attempts < reconnectionAttempts
  /\ IF sockets[s].attempts + 1 >= reconnectionAttempts
       THEN /\ sockets' = [sockets EXCEPT ![s] = [st |-> "exhausted",
                                                   attempts |-> @.attempts + 1]]
            /\ out' = Emit("reconnect-failed", None)
            /\ failedSignals' = failedSignals + 1
       ELSE /\ sockets' = [sockets EXCEPT ![s].attempts = @ + 1]
            /\ out' = <<>>
            /\ failedSignals' = failedSignals
  /\ Step("reconnect_attempt:failed", None)
  /\ UNCHANGED <<initVars, domVars, callVars, listeners, unreadCount, socket>>
  /\ UNCHANGED <<workerVars, hook>>

\* variant of disconnect() that closes the socket and keeps the listener map
DisconnectKeepsListeners ==
  /\ IF socket # 0
       THEN /\ sockets' = [sockets EXCEPT ![socket].st = "closed"]
            /\ out' = IF sockets[socket].st = "connected"
                        THEN Emit("disconnected", None) ELSE <<>>
       ELSE /\ sockets' = sockets
            /\ out' = <<>>
  /\ socket' = 0
  /\ listeners' = listeners
  /\ Step("disconnect()", None)
  /\ UNCHANGED <<initVars, domVars, callVars, unreadCount, failedSignals>>

\* disconnect()
DisconnectCall ==
  /\ IF socket # 0
       THEN /\ sockets' = [sockets EXCEPT ![socket].st = "closed"]
            /\ out' = IF sockets[socket].st = "connected"
                        THEN Emit("disconnected", None) ELSE <<>>
       ELSE /\ sockets' = sockets
            /\ out' = <<>>
  /\ socket' = 0
  /\ listeners' = [e \in BusEvents |-> <<>>]
  /\ Step("disconnect()", None)
  /\ UNCHANGED <<initVars, domVars, callVars, unreadCount, failedSignals>>

\* disconnect() called by the application
Disconnect ==
  /\ DisconnectCall
  /\ UNCHANGED <<workerVars, hook>>

(* ------------------------------ initialize ----------------------------- *)
\* the steps an initialize call has taken: the user it was called for (0: no
\* call yet), how registerServiceWorker and fetchVapidPublicKey ended, what
\* requestPermission resolved to, whether getSubscription / subscribe / the
\* subscription report were issued, whether an existing subscription was
\* found, whether the backend accepted the report, and whether the call
\* reached connectWebSocket()
NoCall ==
  [user |-> 0, sw |-> "none", vapid |-> "none", permission |-> "none",
   getSub |-> FALSE, found |-> FALSE, subscribe |-> FALSE, send |-> FALSE,
   accepted |-> FALSE, connect |-> FALSE]

\* the synchronous tail of initialize: connectWebSocket(),
\* setupServiceWorkerListener(), setupVisibilityChangeListener(), flag reset
InitializeTail ==
  /\ ConnectWebSocket
  /\ swListeners' = IF platform.serviceWorker THEN swListeners + 1 ELSE swListeners
  /\ visListeners' = visListeners + 1
  /\ isInitializing' = FALSE
  /\ initPc' = "idle"

\* variant of initialize that stores the user before it tests the in-progress flag
InitializeAssignsFirst(u) ==
  /\ IF isInitializing
       THEN /\ Step("initialize:in-progress", User(u))
            /\ out' = Fulfilled("initialize", None)
            /\ userId' = u
            /\ UNCHANGED <<deviceId, registration, vapidPublicKey,
                           initializationAttempts, isInitializing, initPc,
                           initFailures, call>>
       ELSE IF initializationAttempts >= maxInitializationAttempts
       THEN /\ Step("initialize:capped", User(u))
            /\ out' = Fulfilled("initialize", None)
            /\ UNCHANGED initVars
       ELSE /\ isInitializing' = TRUE
            /\ initializationAttempts' = initializationAttempts + 1
            /\ userId' = u
            /\ initPc' = "register"
            /\ out' = IF platform.serviceWorker
                        THEN <<Effect("navigator", "serviceWorker.register", "", None)>>
                        ELSE <<>>
            /\ call' = [NoCall EXCEPT !.user = u]
            /\ Step("initialize", User(u))
            /\ UNCHANGED <<deviceId, registration, vapidPublicKey, initFailures>>
  /\ UNCHANGED <<domVars, callVars, channelVars, listeners, unreadCount>>

\* variant of initialize whose cap check lets one more call through
InitializeLateCap(u) ==
  /\ IF isInitializing
       THEN /\ Step("initialize:in-progress", User(u))
            /\ out' = Fulfilled("initialize", None)
            /\ UNCHANGED initVars
       ELSE IF initializationAttempts > maxInitializationAttempts
       THEN /\ Step("initialize:capped", User(u))
            /\ out' = Fulfilled("initialize", None)
            /\ UNCHANGED initVars
       ELSE /\ isInitializing' = TRUE
            /\ initializationAttempts' = initializationAttempts + 1
            /\ userId' = u
            /\ initPc' = "register"
            /\ out' = IF platform.serviceWorker
                        THEN <<Effect("navigator", "serviceWorker.register", "", None)>>
                        ELSE <<>>
            /\ call' = [NoCall EXCEPT !.user = u]
            /\ Step("initialize", User(u))
            /\ UNCHANGED <<deviceId, registration, vapidPublicKey, initFailures>>
  /\ UNCHANGED <<domVars, callVars, channelVars, listeners, unreadCount>>

\* initialize(userId): the two guards, then the work up to the first await
InitializeCall(u) ==
  /\ IF isInitializing
       THEN /\ Step("initialize:in-progress", User(u))
            /\ out' = Fulfilled("initialize", None)
            /\ UNCHANGED initVars
       ELSE IF initializationAttempts >= maxInitializationAttempts
       THEN /\ Step("initialize:capped", User(u))
            /\ out' = Fulfilled("initialize", None)
            /\ UNCHANGED initVars
       ELSE /\ isInitializing' = TRUE
            /\ initializationAttempts' = initializationAttempts + 1
            /\ userId' = u
            /\ initPc' = "register"
            /\ out' = IF platform.serviceWorker
                        THEN <<Effect("navigator", "serviceWorker.register", "", None)>>
                        ELSE <<>>
            /\ call' = [NoCall EXCEPT !.user = u]
            /\ Step("initialize", User(u))
            /\ UNCHANGED <<deviceId, registration, vapidPublicKey, initFailures>>
  /\ UNCHANGED <<domVars, callVars, channelVars, listeners, unreadCount>>

\* initialize(userId) called by the application
Initialize(u) ==
  /\ InitializeCall(u)
  /\ UNCHANGED <<workerVars, hook>>

\* variant of the outer catch of initialize that leaves the in-progress flag set
RegisterRejectedKeepsFlag ==
  /\ initPc = "register"
  /\ isInitializing' = isInitializing
  /\ initPc' = "idle"
  /\ initFailures' = initFailures + 1
  /\ call' = [call EXCEPT !.sw = "failed"]
  /\ out' = Fulfilled("initialize", None)
  /\ Step("initialize:failed", None)
  /\ UNCHANGED <<deviceId, userId, registration, vapidPublicKey,
                 initializationAttempts, domVars, callVars, channelVars,
                 listeners, unreadCount>>
  /\ UNCHANGED <<workerVars, hook>>

\* variant of the outer catch of initialize that rethrows the error
RegisterRejectedRethrows ==
  /\ initPc = "register"
  /\ isInitializing' = FALSE
  /\ initPc' = "idle"
  /\ initFailures' = initFailures + 1
  /\ call' = [call EXCEPT !.sw = "failed"]
  /\ out' = <<Effect("rejected", "initialize", "", None)>>
  /\ Step("initialize:failed", None)
  /\ UNCHANGED <<deviceId, userId, registration, vapidPublicKey,
                 initializationAttempts, domVars, callVars, channelVars,
                 listeners, unreadCount>>
  /\ UNCHANGED <<workerVars, hook>>

\* registerServiceWorker() throws (no support, or register() rejects): outer catch
RegisterRejected ==
  /\ initPc = "register"
  /\ isInitializing' = FALSE
  /\ initPc' = "idle"
  /\ initFailures' = initFailures + 1
  /\ call' = [call EXCEPT !.sw = "failed"]
  /\ out' = Fulfilled("initialize", None)
  /\ Step("initialize:failed", None)
  /\ UNCHANGED <<deviceId, userId, registration, vapidPublicKey,
                 initializationAttempts, domVars, callVars, channelVars,
                 listeners, unreadCount>>
  /\ UNCHANGED <<workerVars, hook>>

\* navigator.serviceWorker.register() resolves; the call awaits .ready
RegisterResolved ==
  /\ initPc = "register" /\ platform.serviceWorker
  /\ registration' = IF registration = "active" THEN "active" ELSE "registered"
  /\ initPc' = "ready"
  /\ call' = [call EXCEPT !.sw = "ok"]
  /\ out' = <<>>
  /\ Step("register:resolved", None)
  /\ UNCHANGED <<deviceId, userId, vapidPublicKey, initializationAttempts,
                 isInitializing, initFailures, domVars, callVars, channelVars,
                 listeners, unreadCount>>
  /\ UNCHANGED <<workerVars, hook>>

\* navigator.serviceWorker.ready resolves; fetchVapidPublicKey() starts
ReadyResolved ==
  /\ initPc = "ready"
  /\ registration' = "active"
  /\ initPc' = "vapid"
  /\ call' = call
  /\ out' = Fetch("/notifications/vapid-public-key", None)
  /\ Step("ready:resolved", None)
  /\ UNCHANGED <<deviceId, userId, vapidPublicKey, initializationAttempts,
                 isInitializing, initFailures, domVars, callVars, channelVars,
                 listeners, unreadCount>>
  /\ UNCHANGED <<workerVars, hook>>

\* the permission prompt is shown only when the platform has not decided yet
Prompts == platform.notification /\ platform.permission = "default"

\* fetchVapidPublicKey() settles (ok: 2xx and success); requestPermission() starts
VapidSettled(ok) ==
  /\ initPc = "vapid"
  /\ vapidPublicKey' = (ok \/ vapidPublicKey)
  /\ initPc' = "permission"
  /\ call' = [call EXCEPT !.vapid = IF ok THEN "ok" ELSE "failed"]
  /\ out' = IF Prompts
              THEN <<Effect("Notification", "requestPermission", "", None)>>
              ELSE <<>>
  /\ Step(IF ok THEN "vapid:resolved" ELSE "vapid:failed", None)
  /\ UNCHANGED <<deviceId, userId, registration, initializationAttempts,
                 isInitializing, initFailures, domVars, callVars, channelVars,
                 listeners, unreadCount>>
  /\ UNCHANGED <<workerVars, hook>>

\* what requestPermission() can resolve to
PermissionResults ==
  IF ~platform.notification THEN {"denied"}
  ELSE IF platform.permission # "default" THEN {platform.permission}
  ELSE {"granted", "denied", "default"}

\* requestPermission() resolves; subscribeToPushNotifications() starts when the
\* permission is granted and the key is known, otherwise the tail runs
PermissionResolved(result) ==
  /\ initPc = "permission"
  /\ result \in PermissionResults
  /\ platform' = IF platform.notification
                   THEN [platform EXCEPT !.permission = result] ELSE platform
  /\ IF result = "granted" /\ vapidPublicKey
       THEN /\ initPc' = "getSubscription"
            /\ call' = [call EXCEPT !.permission = result, !.getSub = TRUE]
            /\ out' = <<Effect("pushManager", "getSubscription", "", None)>>
            /\ UNCHANGED <<isInitializing, swListeners, visListeners, socket, sockets>>
       ELSE /\ InitializeTail
            /\ call' = [call EXCEPT !.permission = result, !.connect = TRUE]
            /\ out' = Fulfilled("initialize", None)
  /\ Step("permission:resolved", None)
  /\ UNCHANGED <<deviceId, userId, registration, vapidPublicKey,
                 initializationAttempts, initFailures, visible, callVars,
                 failedSignals, listeners, unreadCount>>
  /\ UNCHANGED <<workerVars, hook>>

\* POST /notifications/subscribe issued by sendSubscriptionToBackend
SubscribeRequest == Fetch("/notifications/subscribe", User(userId))

\* pushManager.getSubscription() resolves: reuse the subscription or create one
GetSubscriptionResolved ==
  /\ initPc = "getSubscription"
  /\ IF platform.subscription
       THEN /\ initPc' = "send"
            /\ call' = [call EXCEPT !.found = TRUE, !.send = TRUE]
            /\ out' = SubscribeRequest
       ELSE /\ initPc' = "subscribe"
            /\ call' = [call EXCEPT !.subscribe = TRUE]
            /\ out' = <<Effect("pushManager", "subscribe", "", None)>>
  /\ Step("getSubscription:resolved", None)
  /\ UNCHANGED <<deviceId, userId, registration, vapidPublicKey,
                 initializationAttempts, isInitializing, initFailures, domVars,
                 callVars, channelVars, listeners, unreadCount>>
  /\ UNCHANGED <<workerVars, hook>>

\* pushManager.subscribe() resolves; the subscription is reported to the backend
SubscribeResolved ==
  /\ initPc = "subscribe"
  /\ platform' = [platform EXCEPT !.subscription = TRUE]
  /\ initPc' = "send"
  /\ call' = [call EXCEPT !.send = TRUE]
  /\ out' = SubscribeRequest
  /\ Step("subscribe:resolved", None)
  /\ UNCHANGED <<deviceId, userId, registration, vapidPublicKey,
                 initializationAttempts, isInitializing, initFailures, visible,
                 swListeners, visListeners, callVars, channelVars, listeners,
                 unreadCount>>
  /\ UNCHANGED <<workerVars, hook>>

\* getSubscription(), subscribe() or the key conversion throws: caught inside
\* subscribeToPushNotifications, then the tail runs
PushRejected ==
  /\ initPc \in {"getSubscription", "subscribe"}
  /\ InitializeTail
  /\ call' = [call EXCEPT !.connect = TRUE]
  /\ out' = Fulfilled("initialize", None)
  /\ Step("push:rejected", None)
  /\ UNCHANGED <<deviceId, userId, registration, vapidPublicKey,
                 initializationAttempts, initFailures, visible, platform,
                 callVars, failedSignals, listeners, unreadCount>>
  /\ UNCHANGED <<workerVars, hook>>

\* variant of the last step of initialize that clears the attempt counter once
\* the backend has accepted the device
SendSettledResets(device) ==
  /\ initPc = "send"
  /\ deviceId' = IF device # 0 THEN device ELSE deviceId
  /\ InitializeTail
  /\ initializationAttempts' = IF device # 0 THEN 0 ELSE initializationAttempts
  /\ call' = [call EXCEPT !.accepted = (device # 0), !.connect = TRUE]
  /\ out' = (IF device # 0
               THEN <<Effect("localStorage", "deviceId", "", Num(device))>>
               ELSE <<>>) \o Fulfilled("initialize", None)
  /\ Step(IF device # 0 THEN "send:resolved" ELSE "send:failed", None)
  /\ UNCHANGED <<userId, registration, vapidPublicKey,
                 initFailures, visible, platform, callVars, failedSignals,
                 listeners, unreadCount>>
  /\ UNCHANGED <<workerVars, hook>>

\* the subscribe request settles (device: the deviceId of a success envelope,
\* 0 when the request failed or success is false), then the tail runs
SendSettled(device) ==
  /\ initPc = "send"
  /\ deviceId' = IF device # 0 THEN device ELSE deviceId
  /\ InitializeTail
  /\ call' = [call EXCEPT !.accepted = (device # 0), !.connect = TRUE]
  /\ out' = (IF device # 0
               THEN <<Effect("localStorage", "deviceId", "", Num(device))>>
               ELSE <<>>) \o Fulfilled("initialize", None)
  /\ Step(IF device # 0 THEN "send:resolved" ELSE "send:failed", None)
  /\ UNCHANGED <<userId, registration, vapidPublicKey, initializationAttempts,
                 initFailures, visible, platform, callVars, failedSignals,
                 listeners, unreadCount>>
  /\ UNCHANGED <<workerVars, hook>>

(* ===================== the service worker (sw.js) ====================== *)
VERSION == "1.0.0"
CACHE_NAME == "water-supply-v1.0.0"
\* caches left by an earlier version of the worker or by other code of the origin
OtherCaches == {"water-supply-v0.9.0", "runtime"}
CacheNames == {CACHE_NAME} \cup OtherCaches
ASSETS_TO_CACHE ==
  {"/", "/index.html", "/icon-192x192.png", "/icon-512x512.png", "/badge-72x72.png"}

\* a cache of CacheStorage
NoCache == [exists |-> FALSE, entries |-> {}]
Cache(entries) == [exists |-> TRUE, entries |-> entries]

\* caches.match(path): the first cache that holds the path answers
Cached(path) == \E c \in CacheNames : swCaches[c].exists /\ path \in swCaches[c].entries

\* 'install': caches.open(CACHE_NAME), cache.addAll(ASSETS_TO_CACHE), skipWaiting();
\* addAll stores all assets or, when one request fails, none, and then the
\* worker is discarded
Install(ok) ==
  /\ swState = "parsed"
  /\ swCaches' = [swCaches EXCEPT ![CACHE_NAME] =
                     IF ok THEN Cache(@.entries \cup ASSETS_TO_CACHE) ELSE Cache(@.entries)]
  /\ swState' = IF ok THEN "installed" ELSE "redundant"
  /\ out' = IF ok THEN <<Effect("self", "skipWaiting", "", None)>> ELSE <<>>
  /\ Step("install", None)
  /\ UNCHANGED <<managerVars, hook, swDeleting, swClaimed, swBadge, swInbox,
                 swPending, swPlatform>>

\* 'activate': caches.keys(), then caches.delete(name) for every other name
Activate ==
  /\ swState = "installed"
  /\ swState' = "activating"
  /\ swDeleting' = {c \in CacheNames : swCaches[c].exists /\ c # CACHE_NAME}
  /\ out' = [i \in 1..Cardinality(swDeleting') |-> Effect("caches", "delete", "", None)]
  /\ Step("activate", None)
  /\ UNCHANGED <<managerVars, hook, swCaches, swClaimed, swBadge, swInbox,
                 swPending, swPlatform>>

\* one of the caches.delete(name) calls resolves
DeleteResolved(c) ==
  /\ swState = "activating"
  /\ c \in swDeleting
  /\ swCaches' = [swCaches EXCEPT ![c] = NoCache]
  /\ swDeleting' = swDeleting \ {c}
  /\ out' = <<>>
  /\ Step("delete:resolved", None)
  /\ UNCHANGED <<managerVars, hook, swState, swClaimed, swBadge, swInbox,
                 swPending, swPlatform>>

\* variant of the activate handler that claims the clients without waiting
\* for the deletions
ClientsClaimAtOnce ==
  /\ swState = "activating"
  /\ swClaimed' = TRUE
  /\ swState' = "activated"
  /\ out' = <<Effect("clients", "claim", "", None)>>
  /\ Step("claim", None)
  /\ UNCHANGED <<managerVars, hook, swCaches, swDeleting, swBadge, swInbox,
                 swPending, swPlatform>>

\* Promise.all(...) has resolved: self.clients.claim(), activation completes
ClientsClaim ==
  /\ swState = "activating"
  /\ swDeleting = {}
  /\ swClaimed' = TRUE
  /\ swState' = "activated"
  /\ out' = <<Effect("clients", "claim", "", None)>>
  /\ Step("claim", None)
  /\ UNCHANGED <<managerVars, hook, swCaches, swDeleting, swBadge, swInbox,
                 swPending, swPlatform>>

(* ------------------------------- push ---------------------------------- *)
\* the fields of a push payload that the handler reads
PushFields == {"title", "body", "icon", "badge", "vibrate", "actions", "data",
               "badgeCount"}
\* the fields of the notification that is shown
ShownFields == PushFields \ {"badgeCount"}

\* event.data: absent, text that is not JSON, or a JSON object with some fields
PushPayloads ==
  {[kind |-> "none", fields |-> {}], [kind |-> "text", fields |-> {}]} \cup
  {[kind |-> "json", fields |-> F] : F \in SUBSET PushFields}

\* where each field of the shown notification comes from: the payload, the
\* default of the handler, the raw text of the payload, or nowhere (undefined)
ShownFrom(payload, f) ==
  IF payload.kind = "none" THEN "default"
  ELSE IF payload.kind = "text" THEN (IF f = "body" THEN "text" ELSE "default")
  ELSE IF f \in payload.fields THEN "payload"
  ELSE IF f \in {"title", "body"} THEN "undefined"
  ELSE "default"

\* navigator.setAppBadge(contents): 0 clears the badge
SetAppBadge(count) == IF count = Num(0) THEN None ELSE count

\* 'push': showNotification(title, options), then the badge when the payload
\* carries badgeCount (count)
Push(payload, count) ==
  /\ swState = "activated"
  /\ out' = <<[ch |-> "registration", ev |-> "showNotification", to |-> "",
               arg |-> [t |-> "options", v |-> 0,
                        from |-> [f \in ShownFields |-> ShownFrom(payload, f)]]]>>
  /\ swBadge' = IF "badgeCount" \in payload.fields /\ swPlatform.badge
                  THEN SetAppBadge(Num(count)) ELSE swBadge
  /\ Step("push", [t |-> payload.kind, v |-> count, fields |-> payload.fields])
  /\ UNCHANGED <<managerVars, hook, swState, swCaches, swDeleting, swClaimed,
                 swInbox, swPending, swPlatform>>

(* -------------------------- notificationclick -------------------------- *)
\* the message posted to the focused window
Clicked(url, action) ==
  [t |-> "NOTIFICATION_CLICKED", v |-> 0, url |-> url, notificationId |-> 1,
   action |-> action]

\* variant of the click handler whose loop does not stop at the first window
NotificationClickEveryWindow(action, windows, target) ==
  /\ swState = "activated"
  /\ out' = <<Effect("notification", "close", "", None)>> \o
            (IF action = "dismiss" THEN <<>>
             ELSE <<Effect("clients", "matchAll", "", None)>> \o
                  [i \in 1..windows |-> Effect("client", "focus", "window", None)] \o
                  [i \in 1..windows |-> Effect("client", "postMessage", "window",
                                               Clicked(target, action))] \o
                  <<[ch |-> "clients", ev |-> "openWindow", to |-> "",
                     arg |-> [t |-> "url", v |-> 0, url |-> target]]>>)
  /\ Step("notificationclick", [t |-> action, v |-> windows, target |-> target])
  /\ UNCHANGED <<managerVars, hook, workerVars>>

\* variant of the click handler that treats 'dismiss' as any other action
NotificationClickAlways(action, windows, target) ==
  /\ swState = "activated"
  /\ out' = <<Effect("notification", "close", "", None)>> \o
            <<Effect("clients", "matchAll", "", None)>> \o
            (IF windows > 0
               THEN <<Effect("client", "focus", "window1", None),
                      Effect("client", "postMessage", "window1",
                             Clicked(target, action))>>
               ELSE <<[ch |-> "clients", ev |-> "openWindow", to |-> "",
                       arg |-> [t |-> "url", v |-> 0, url |-> target]]>>)
  /\ Step("notificationclick", [t |-> action, v |-> windows, target |-> target])
  /\ UNCHANGED <<managerVars, hook, workerVars>>

\* 'notificationclick' with event.action = action, while the origin has
\* `windows` open windows; target is data.targetUrl || '/'. Every platform
\* that dispatches this event provides clients.openWindow.
NotificationClick(action, windows, target) ==
  /\ swState = "activated"
  /\ out' = <<Effect("notification", "close", "", None)>> \o
            (IF action = "dismiss" THEN <<>>
             ELSE <<Effect("clients", "matchAll", "", None)>> \o
                  (IF windows > 0
                     THEN <<Effect("client", "focus", "window1", None),
                            Effect("client", "postMessage", "window1",
                                   Clicked(target, action))>>
                     ELSE <<[ch |-> "clients", ev |-> "openWindow", to |-> "",
                             arg |-> [t |-> "url", v |-> 0, url |-> target]]>>))
  /\ Step("notificationclick", [t |-> action, v |-> windows, target |-> target])
  /\ UNCHANGED <<managerVars, hook, workerVars>>

(* ------------------------------ messages ------------------------------- *)
\* what the page posts to the worker: updateBadge posts UPDATE_BADGE with
\* the value of unreadCount it was given
Messages ==
  {[t |-> "UPDATE_BADGE", v |-> c] : c \in CountPayloads \cup {NaN}} \cup
  {[t |-> "CLEAR_BADGE", v |-> None], [t |-> "SKIP_WAITING", v |-> None]}

\* registration.active.postMessage(m)
PostMessage(m) ==
  /\ swState = "activated"
  /\ Len(swInbox) < MaxInbox
  /\ swInbox' = Append(swInbox, m)
  /\ out' = <<>>
  /\ Step("postMessage", None)
  /\ UNCHANGED <<managerVars, hook, swState, swCaches, swDeleting, swClaimed,
                 swBadge, swPending, swPlatform>>

\* the badge after the 'message' listener has handled m
Mirrored(m) ==
  IF ~swPlatform.badge THEN swBadge
  ELSE IF m.t = "CLEAR_BADGE" THEN None
  ELSE IF m.t = "UPDATE_BADGE"
    THEN (IF GreaterThanZero(OrZero(m.v)) THEN m.v ELSE None)
  ELSE swBadge

\* variant of the 'message' listener that never clears the badge
MessageKeepsBadge ==
  /\ swInbox # <<>>
  /\ swInbox' = Tail(swInbox)
  /\ swBadge' = IF Mirrored(Head(swInbox)) = None THEN swBadge
                  ELSE Mirrored(Head(swInbox))
  /\ out' = <<>>
  /\ Step("message", Head(swInbox))
  /\ UNCHANGED <<managerVars, hook, swState, swCaches, swDeleting, swClaimed,
                 swPending, swPlatform>>

\* 'message': the oldest posted message is delivered
Message ==
  /\ swInbox # <<>>
  /\ swInbox' = Tail(swInbox)
  /\ swBadge' = Mirrored(Head(swInbox))
  /\ out' = IF Head(swInbox).t = "SKIP_WAITING"
              THEN <<Effect("self", "skipWaiting", "", None)>> ELSE <<>>
  /\ Step("message", Head(swInbox))
  /\ UNCHANGED <<managerVars, hook, swState, swCaches, swDeleting, swClaimed,
                 swPending, swPlatform>>

(* ----------------------------- periodicsync ---------------------------- *)
\* 'periodicsync' with event.tag = tag: fetchNewNotifications() up to its fetch
PeriodicSync(tag) ==
  /\ swState = "activated"
  /\ IF tag = "fetch-notifications"
       THEN /\ swPending < MaxPending
            /\ swPending' = swPending + 1
            /\ out' = Fetch("/api/notifications/pending?limit=10", None)
       ELSE /\ swPending' = swPending
            /\ out' = <<>>
  /\ Step("periodicsync", None)
  /\ UNCHANGED <<managerVars, hook, swState, swCaches, swDeleting, swClaimed,
                 swBadge, swInbox, swPlatform>>

\* the catch-up notifications shown by the worker: data.data.slice(0, 3)
ShowBatch(len) ==
  [i \in 1..(IF len < CatchUpLimit THEN len ELSE CatchUpLimit) |->
     Effect("registration", "showNotification", "", Notif(i))]

\* the fetch resolves (ok: response.ok) with {data (of length len), count}
FetchNewResolved(ok, len, count) ==
  /\ swPending > 0
  /\ swPending' = swPending - 1
  /\ IF ok /\ len > 0
       THEN /\ out' = ShowBatch(len)
            /\ swBadge' = IF swPlatform.badge THEN SetAppBadge(count) ELSE swBadge
       ELSE /\ out' = <<>>
            /\ swBadge' = swBadge
  /\ Step("fetchNewNotifications:resolved",
          IF ok THEN [t |-> "batch", v |-> len, count |-> count] ELSE None)
  /\ UNCHANGED <<managerVars, hook, swState, swCaches, swDeleting, swClaimed,
                 swInbox, swPlatform>>

\* the fetch rejects, or its body is not JSON: the catch block
FetchNewRejected ==
  /\ swPending > 0
  /\ swPending' = swPending - 1
  /\ out' = <<>>
  /\ Step("fetchNewNotifications:rejected", None)
  /\ UNCHANGED <<managerVars, hook, swState, swCaches, swDeleting, swClaimed,
                 swBadge, swInbox, swPlatform>>

(* ------------------------------- fetch --------------------------------- *)
\* same-origin paths a page requests: cached assets, a client-side route, API calls
ApiPaths == {"/api/notifications/pending", "/api/orders"}
AssetPaths == {"/index.html", "/icon-192x192.png", "/orders", "/old.js"}
Paths == ApiPaths \cup AssetPaths

\* event.request.url.includes('/api/')
IsApi(path) == path \in ApiPaths

Request(origin, path, online) ==
  [t |-> "request", v |-> 0, origin |-> origin, path |-> path, online |-> online]

\* the responses the handler can give
Respond(kind, path) == <<Effect("respondWith", kind, "", [t |-> "path", v |-> 0, path |-> path])>>
NetworkFetch(path) == <<Effect("network", "fetch", "", [t |-> "path", v |-> 0, path |-> path])>>

\* variant of the fetch handler that goes to the network first for every request
FetchEventNetworkFirst(origin, path, online) ==
  /\ swState = "activated"
  /\ out' = IF origin # "same" THEN <<>>
            ELSE NetworkFetch(path) \o
                 (IF online THEN Respond("network", path)
                  ELSE IF IsApi(path) THEN Respond("offline", path)
                  ELSE IF Cached(path) THEN Respond("cache", path)
                  ELSE IF Cached("/index.html") THEN Respond("cache", "/index.html")
                  ELSE Respond("undefined", path))
  /\ Step("fetch", Request(origin, path, online))
  /\ UNCHANGED <<managerVars, hook, workerVars>>

\* variant of the fetch handler without the catch of the cache-first branch
FetchEventNoShell(origin, path, online) ==
  /\ swState = "activated"
  /\ out' = IF origin # "same" THEN <<>>
            ELSE IF IsApi(path)
              THEN NetworkFetch(path) \o
                   (IF online THEN Respond("network", path) ELSE Respond("offline", path))
            ELSE IF Cached(path) THEN Respond("cache", path)
            ELSE NetworkFetch(path) \o
                 (IF online THEN Respond("network", path) ELSE Respond("error", path))
  /\ Step("fetch", Request(origin, path, online))
  /\ UNCHANGED <<managerVars, hook, workerVars>>

\* 'fetch' for a request of the given origin and path, the network being
\* reachable (online) or not
FetchEvent(origin, path, online) ==
  /\ swState = "activated"
  /\ out' = IF origin # "same" THEN <<>>
            ELSE IF IsApi(path)
              THEN NetworkFetch(path) \o
                   (IF online THEN Respond("network", path) ELSE Respond("offline", path))
            ELSE IF Cached(path) THEN Respond("cache", path)
            ELSE NetworkFetch(path) \o
                 (IF online THEN Respond("network", path)
                  ELSE IF Cached("/index.html") THEN Respond("cache", "/index.html")
                  ELSE Respond("undefined", path))
  /\ Step("fetch", Request(origin, path, online))
  /\ UNCHANGED <<managerVars, hook, workerVars>>

(* ================ the useNotifications hook (one component) ============= *)
\* the userId the component passes to the hook
HookUser == 1

\* the hook before the component is mounted: its state (isInitialized,
\* isConnected), whether the initialization effect has to run after the next
\* commit, whether its last run returned a cleanup, and whether
\* initializeNotifications() awaits notificationManager.initialize
NoHook ==
  [mounted |-> FALSE, isInitialized |-> FALSE, isConnected |-> FALSE,
   effectDue |-> FALSE, cleanup |-> FALSE, awaiting |-> FALSE]

\* the component mounts: first render, the effect is scheduled
Mount ==
  /\ hook = NoHook
  /\ hook' = [hook EXCEPT !.mounted = TRUE, !.effectDue = TRUE]
  /\ out' = <<>>
  /\ Step("mount", None)
  /\ UNCHANGED <<managerVars, workerVars>>

\* the initialization effect runs after a commit in which [userId,
\* isInitialized] changed: first the cleanup returned by its previous run
\* (disconnect(), setIsInitialized(false), setIsConnected(false)), then its
\* body, which sees the isInitialized of the committed render
InitEffect ==
  /\ hook.mounted /\ hook.effectDue
  /\ IF hook.cleanup /\ hook.isInitialized
       THEN /\ hook' = [hook EXCEPT !.isInitialized = FALSE, !.isConnected = FALSE,
                                     !.cleanup = FALSE, !.effectDue = TRUE]
            /\ DisconnectCall
       ELSE IF hook.isInitialized
       THEN /\ hook' = [hook EXCEPT !.effectDue = FALSE, !.cleanup = FALSE]
            /\ out' = <<>>
            /\ Step("effect", None)
            /\ UNCHANGED managerVars
       ELSE /\ hook' = [hook EXCEPT !.effectDue = FALSE, !.cleanup = TRUE,
                                     !.awaiting = TRUE]
            /\ InitializeCall(HookUser)
  /\ UNCHANGED workerVars

\* the awaited notificationManager.initialize(userId) has resolved:
\* setIsInitialized(true), setIsConnected(true)
InitializeNotificationsResolved ==
  /\ hook.awaiting /\ ~isInitializing
  /\ hook' = [hook EXCEPT !.awaiting = FALSE, !.isInitialized = TRUE,
                           !.isConnected = TRUE,
                           !.effectDue = (@ \/ (hook.mounted /\ ~hook.isInitialized))]
  /\ out' = <<>>
  /\ Step("setIsInitialized", None)
  /\ UNCHANGED <<managerVars, workerVars>>

\* the component unmounts: the cleanup of the last effect run, when it returned one
Unmount ==
  /\ hook.mounted
  /\ hook' = [hook EXCEPT !.mounted = FALSE, !.effectDue = FALSE, !.cleanup = FALSE]
  /\ IF hook.cleanup
       THEN DisconnectCall
       ELSE /\ out' = <<>>
            /\ Step("unmount", None)
            /\ UNCHANGED managerVars
  /\ UNCHANGED workerVars

(* --------------------------- specifications ---------------------------- *)
Platforms ==
  [serviceWorker : BOOLEAN, notification : BOOLEAN, badge : BOOLEAN,
   permission : {"default", "granted", "denied"}, subscription : BOOLEAN]

\* no service worker of this version has been installed
NoWorker ==
  /\ swState = "parsed"
  /\ swCaches = [c \in CacheNames |-> NoCache]
  /\ swDeleting = {}
  /\ swClaimed = FALSE
  /\ swBadge = None
  /\ swInbox = <<>>
  /\ swPending = 0
  /\ swPlatform = [badge |-> TRUE]

\* the worker after install and activate
ActiveWorker ==
  /\ swState = "activated"
  /\ swCaches = [c \in CacheNames |->
                   IF c = CACHE_NAME THEN Cache(ASSETS_TO_CACHE) ELSE NoCache]
  /\ swDeleting = {}
  /\ swClaimed = TRUE
  /\ swBadge = None
  /\ swInbox = <<>>
  /\ swPending = 0
  /\ swPlatform = [badge |-> TRUE]

\* new NotificationManager()
NewManager ==
  /\ socket = 0
  /\ deviceId = 0
  /\ userId = 0
  /\ registration = "null"
  /\ vapidPublicKey = FALSE
  /\ listeners = [e \in BusEvents |-> <<>>]
  /\ unreadCount = Num(0)
  /\ initializationAttempts = 0
  /\ isInitializing = FALSE
  /\ initPc = "idle"
  /\ initFailures = 0
  /\ call = NoCall
  /\ sockets = <<>>
  /\ pendingReads = 0
  /\ pendingAlls = 0
  /\ pendingPolls = 0
  /\ pendingGets = [q \in Queries |-> 0]
  /\ visible = TRUE
  /\ swListeners = 0
  /\ visListeners = 0
  /\ failedSignals = 0
  /\ out = <<>>
  /\ last = [op |-> "new", arg |-> None, before |-> Num(0)]
  /\ prev = [op |-> "other", arg |-> None]
  /\ allReadRun = 0

\* a freshly loaded page: the manager constructed, no worker, nothing mounted
Constructed ==
  /\ NewManager
  /\ NoWorker
  /\ hook = NoHook

Init ==
  /\ Constructed
  /\ platform \in Platforms

InitializeSteps ==
  \/ \E u \in Users : Initialize(u)
  \/ RegisterRejected
  \/ RegisterResolved
  \/ ReadyResolved
  \/ \E ok \in BOOLEAN : VapidSettled(ok)
  \/ \E r \in {"granted", "denied", "default"} : PermissionResolved(r)
  \/ GetSubscriptionResolved
  \/ SubscribeResolved
  \/ PushRejected
  \/ \E d \in 0..1 : SendSettled(d)

\* the steps of an initialize call after its first await
InitializeContinues ==
  \/ RegisterRejected
  \/ RegisterResolved
  \/ ReadyResolved
  \/ \E ok \in BOOLEAN : VapidSettled(ok)
  \/ \E r \in {"granted", "denied", "default"} : PermissionResolved(r)
  \/ GetSubscriptionResolved
  \/ SubscribeResolved
  \/ PushRejected
  \/ \E d \in 0..1 : SendSettled(d)

TransportSteps ==
  \/ \E s \in 1..Len(sockets) : TransportConnect(s)
  \/ \E s \in 1..Len(sockets) : ConnectError(s)
  \/ \E s \in 1..Len(sockets) : TransportDrop(s)
  \/ \E s \in 1..Len(sockets) : ServerDisconnect(s)
  \/ \E s \in 1..Len(sockets) : ReconnectSucceeded(s)
  \/ \E s \in 1..Len(sockets) : ReconnectAttemptFailed(s)

InboundSteps ==
  \/ \E s \in 1..Len(sockets), c \in CountPayloads : ConnectionVerified(s, c)
  \/ \E s \in 1..Len(sockets), n \in Notifications : NotificationNew(s, n)
  \/ \E s \in 1..Len(sockets), n \in Notifications : NotificationReadSync(s, n)
  \/ \E s \in 1..Len(sockets) : NotificationAllRead(s)
  \/ \E s \in 1..Len(sockets), c \in CountPayloads : NotificationBadgeUpdate(s, c)

ReadSteps ==
  \/ \E n \in Notifications : MarkAsRead(n)
  \/ \E n \in Notifications : MarkAsClicked(n)
  \/ MarkAsReadResolved
  \/ MarkAsReadRejected
  \/ MarkAllAsRead
  \/ MarkAllAsReadResolved
  \/ MarkAllAsReadRejected

PollSteps ==
  \/ VisibilityChange
  \/ \E ok \in BOOLEAN, len \in {0, 1, CatchUpLimit + 1}, c \in CountPayloads :
       FetchMissedResolved(ok, len, c)
  \/ FetchMissedRejected

QuerySteps ==
  \/ \E q \in Queries : Query(q)
  \/ \E q \in Queries, ok \in BOOLEAN, len \in 0..MaxCount : QueryResolved(q, ok, len)
  \/ \E q \in Queries : QueryRejected(q)

ListenerSteps ==
  \/ \E e \in BusEvents, cb \in Callbacks : On(e, cb)
  \/ \E e \in BusEvents, cb \in Callbacks : Off(e, cb)

(* The reconciliation of unreadCount is studied from an established session:  *)
(* the state reached from Constructed by one initialize(1) on a platform     *)
(* that grants push (register, ready, key, permission, existing              *)
(* subscription, device report) followed by the transport's 'connect'.       *)
GrantedPlatform ==
  [serviceWorker |-> TRUE, notification |-> TRUE, badge |-> TRUE,
   permission |-> "granted", subscription |-> TRUE]

\* the record of that initialize(1) call
GrantedCall ==
  [user |-> 1, sw |-> "ok", vapid |-> "ok", permission |-> "granted",
   getSub |-> TRUE, found |-> TRUE, subscribe |-> FALSE, send |-> TRUE,
   accepted |-> TRUE, connect |-> TRUE]

Established ==
  /\ socket = 1
  /\ deviceId = 1
  /\ userId = 1
  /\ registration = "active"
  /\ vapidPublicKey = TRUE
  /\ listeners = [e \in BusEvents |-> <<>>]
  /\ unreadCount = Num(0)
  /\ initializationAttempts = 1
  /\ isInitializing = FALSE
  /\ initPc = "idle"
  /\ initFailures = 0
  /\ call = GrantedCall
  /\ sockets = <<[st |-> "connected", attempts |-> 0]>>
  /\ pendingReads = 0
  /\ pendingAlls = 0
  /\ pendingPolls = 0
  /\ pendingGets = [q \in Queries |-> 0]
  /\ visible = TRUE
  /\ swListeners = 1
  /\ visListeners = 1
  /\ platform = GrantedPlatform
  /\ failedSignals = 0
  /\ out = <<[ch |-> "socket", ev |-> "authenticate", to |-> "",
              arg |-> [t |-> "auth", v |-> 1, deviceId |-> 1]]>>
  /\ last = [op |-> "connect", arg |-> None, before |-> Num(0)]
  /\ prev = [op |-> "other", arg |-> None]
  /\ allReadRun = 0
  /\ ActiveWorker
  /\ hook = NoHook

NextSync ==
  \/ InboundSteps
  \/ ReadSteps
  \/ PollSteps
  \/ \E cb \in Callbacks : On("notification", cb)
  \/ \E cb \in Callbacks : Off("notification", cb)

SpecSync == Established /\ [][NextSync]_vars

(* The write-through operations in every state of the channel: a manager   *)
(* without a socket and an established session, the transport connecting,  *)
(* dropping, reconnecting and giving up, and disconnect().                 *)
\* the session of Established before the transport has opened
Connecting ==
  /\ socket = 1
  /\ deviceId = 1
  /\ userId = 1
  /\ registration = "active"
  /\ vapidPublicKey = TRUE
  /\ listeners = [e \in BusEvents |-> <<>>]
  /\ unreadCount = Num(0)
  /\ initializationAttempts = 1
  /\ isInitializing = FALSE
  /\ initPc = "idle"
  /\ initFailures = 0
  /\ call = GrantedCall
  /\ sockets = <<NewSocket>>
  /\ pendingReads = 0
  /\ pendingAlls = 0
  /\ pendingPolls = 0
  /\ pendingGets = [q \in Queries |-> 0]
  /\ visible = TRUE
  /\ swListeners = 1
  /\ visListeners = 1
  /\ platform = GrantedPlatform
  /\ failedSignals = 0
  /\ out = <<Effect("localStorage", "deviceId", "", Num(1))>> \o
           Fulfilled("initialize", None)
  /\ last = [op |-> "send:resolved", arg |-> None, before |-> Num(0)]
  /\ prev = [op |-> "other", arg |-> None]
  /\ allReadRun = 0
  /\ ActiveWorker
  /\ hook = NoHook

InitChannel ==
  \/ Constructed /\ platform = GrantedPlatform
  \/ Connecting

NextChannel ==
  \/ TransportSteps
  \/ ReadSteps
  \/ Disconnect

SpecChannel == InitChannel /\ [][NextChannel]_vars

(* A transport that never opens: no 'connect' and no successful reconnection. *)
InitDown ==
  /\ Constructed
  /\ platform \in {GrantedPlatform, [GrantedPlatform EXCEPT !.subscription = FALSE]}

NextDown ==
  \/ InitializeSteps
  \/ \E s \in 1..Len(sockets) : ConnectError(s)
  \/ \E s \in 1..Len(sockets) : ReconnectAttemptFailed(s)
  \/ Disconnect

SpecDown == InitDown /\ [][NextDown]_vars

(* initialize and disconnect() on every platform, sockets left connecting. *)
NextInit ==
  \/ InitializeSteps
  \/ Disconnect

SpecInit == Init /\ [][NextInit]_vars

(* The same, with every awaited step of an accepted initialize call settling *)
(* eventually (the promises of the platform and of fetch do settle).         *)
SpecInitSettles == Init /\ [][NextInit]_vars /\ WF_vars(InitializeContinues)

(* The read-only queries next to the inbound events of an established session. *)
NextQuery ==
  \/ QuerySteps
  \/ InboundSteps

SpecQuery == Established /\ [][NextQuery]_vars

(* initialize, disconnect() and a transport that opens at the first attempt. *)
NextSession ==
  \/ InitializeSteps
  \/ \E s \in 1..Len(sockets) : TransportConnect(s)
  \/ Disconnect

SpecSession == InitDown /\ [][NextSession]_vars

(* The public operations called in any order on a manager that was just     *)
(* constructed, each internal step free to fail.                            *)
NextCalls ==
  \/ InitializeSteps
  \/ ReadSteps
  \/ QuerySteps

SpecCalls == InitDown /\ [][NextCalls]_vars

(* The unread count as the components see it: an established session with   *)
(* components subscribing to and unsubscribing from 'unread-count-updated',  *)
(* and disconnect().                                                         *)
NextBell ==
  \/ InboundSteps
  \/ ReadSteps
  \/ PollSteps
  \/ \E cb \in Callbacks : On("unread-count-updated", cb)
  \/ \E cb \in Callbacks : Off("unread-count-updated", cb)
  \/ Disconnect

SpecBell == Established /\ [][NextBell]_vars

(* The event bus of an established session: components subscribe to and     *)
(* unsubscribe from two of the events while the channel delivers events and *)
(* the application calls disconnect().                                      *)
BusListened == {"notification-read", "disconnected"}

NextBus ==
  \/ InboundSteps
  \/ \E e \in BusListened, cb \in Callbacks : On(e, cb)
  \/ \E e \in BusListened, cb \in Callbacks : Off(e, cb)
  \/ Disconnect

SpecBus == Established /\ [][NextBus]_vars

(* The listeners that initialize adds to navigator.serviceWorker and to the  *)
(* document, over repeated initialize calls and disconnect().                *)
DomSteps ==
  \E type \in {"NOTIFICATION_CLICKED", "OTHER"}, n \in Notifications :
    ServiceWorkerMessage(type, n)

\* the polls are answered with an empty list or fail
NextListeners ==
  \/ InitializeSteps
  \/ Disconnect
  \/ DomSteps
  \/ MarkAsReadResolved
  \/ MarkAsReadRejected
  \/ VisibilityChange
  \/ \E ok \in BOOLEAN : FetchMissedResolved(ok, 0, Num(0))
  \/ FetchMissedRejected

SpecListeners == InitDown /\ [][NextListeners]_vars

(* The service worker from its installation on, next to caches left by an    *)
(* earlier version, with and without the Badging API.                        *)
InitialCaches ==
  {[c \in CacheNames |->
      IF c = "water-supply-v0.9.0" THEN old
      ELSE IF c = "runtime" THEN other
      ELSE NoCache] :
     old \in {NoCache, Cache({"/index.html", "/old.js"})},
     other \in {NoCache, Cache({"/old.js"})}}

InitWorker ==
  /\ NewManager
  /\ platform = GrantedPlatform
  /\ hook = NoHook
  /\ swState = "parsed"
  /\ swCaches \in InitialCaches
  /\ swDeleting = {}
  /\ swClaimed = FALSE
  /\ swBadge = None
  /\ swInbox = <<>>
  /\ swPending = 0
  /\ swPlatform \in [badge : BOOLEAN]

LifecycleSteps ==
  \/ \E ok \in BOOLEAN : Install(ok)
  \/ Activate
  \/ \E c \in CacheNames : DeleteResolved(c)
  \/ ClientsClaim

NextWorker ==
  \/ LifecycleSteps
  \/ \E payload \in PushPayloads, c \in 0..MaxCount : Push(payload, c)
  \/ \E a \in {"dismiss", "view", ""}, w \in 0..MaxWindows, u \in {"/", "/orders"} :
       NotificationClick(a, w, u)
  \/ \E origin \in {"same", "cross"}, path \in Paths, online \in BOOLEAN :
       FetchEvent(origin, path, online)

SpecWorker == InitWorker /\ [][NextWorker]_vars

(* The badge of an active worker: messages from the page, pushes that carry  *)
(* badgeCount, and the periodic fetch.                                       *)
InitBadge ==
  /\ NewManager
  /\ platform = GrantedPlatform
  /\ hook = NoHook
  /\ swState = "activated"
  /\ swCaches = [c \in CacheNames |->
                   IF c = CACHE_NAME THEN Cache(ASSETS_TO_CACHE) ELSE NoCache]
  /\ swDeleting = {}
  /\ swClaimed = TRUE
  /\ swBadge = None
  /\ swInbox = <<>>
  /\ swPending = 0
  /\ swPlatform \in [badge : BOOLEAN]

NextBadge ==
  \/ \E m \in Messages : PostMessage(m)
  \/ Message
  \/ \E tag \in {"fetch-notifications", "other"} : PeriodicSync(tag)
  \/ \E ok \in BOOLEAN, len \in {0, 1, CatchUpLimit + 1}, c \in CountPayloads :
       FetchNewResolved(ok, len, c)
  \/ FetchNewRejected

SpecBadge == InitBadge /\ [][NextBadge]_vars

(* One component that uses the hook, from before it mounts.                  *)
NextHook ==
  \/ Mount
  \/ InitEffect
  \/ InitializeNotificationsResolved
  \/ InitializeContinues
  \/ Unmount

SpecHook == InitDown /\ [][NextHook]_vars

(* The component stays mounted, and every step that can be taken is taken.   *)
NextMounted ==
  \/ Mount
  \/ InitEffect
  \/ InitializeNotificationsResolved
  \/ InitializeContinues

SpecMounted == InitDown /\ [][NextMounted]_vars /\ WF_vars(NextMounted)

(* Everything together: the page, the worker and the component.            *)
Next ==
  \/ InitializeSteps
  \/ TransportSteps
  \/ InboundSteps
  \/ ReadSteps
  \/ PollSteps
  \/ QuerySteps
  \/ ListenerSteps
  \/ Disconnect
  \/ DomSteps
  \/ NextWorker
  \/ NextBadge
  \/ NextHook

Spec == Init /\ [][Next]_vars

(* ============================== properties ============================== *)

(* C1: after any sequence of inbound events, markAsRead / markAllAsRead      *)
(* calls and polls, for any count payload (absent included), unreadCount is  *)
(* a non-negative integer.                                                   *)
C1_UnreadCountNonNegative == IsNumber(unreadCount) /\ unreadCount.v >= 0

(* C2: a connection:verified event that reports unreadCount = N leaves       *)
(* unreadCount equal to N, whatever it was before.                           *)
C2_VerifiedOverwrites ==
  (last.op = "connection:verified" /\ IsNumber(last.arg)) => unreadCount = last.arg

C2_Witness ==
  /\ last.op = "connection:verified"
  /\ last.arg = Num(1)
  /\ last.before = Num(2)

(* C3: after notification:badge-update unreadCount equals the event's count, *)
(* after notification:all-read it is 0; the prior value plays no part.       *)
C3_AbsoluteCorrections ==
  /\ last.op = "notification:badge-update" => unreadCount = last.arg
  /\ last.op = "notification:all-read" => unreadCount = Num(0)

C3_Witness ==
  /\ last.op = "notification:badge-update"
  /\ last.arg = Num(1)
  /\ last.before = Num(2)

\* the callbacks invoked for an event by the last step, and what they received
Calls(event) == SelectSeq(out, LAMBDA e : e.ch = "call" /\ e.ev = event)

(* C4: each notification:new event raises unreadCount by exactly one and     *)
(* hands its payload exactly once to every listener registered for           *)
(* 'notification', visible or not.                                           *)
C4_NewIncrementsAndForwards ==
  last.op = "notification:new" =>
    /\ IsNumber(last.before) /\ unreadCount = Num(last.before.v + 1)
    /\ [i \in 1..Len(Calls("notification")) |-> Calls("notification")[i].to]
         = listeners["notification"]
    /\ \A i \in 1..Len(Calls("notification")) :
         Calls("notification")[i].arg = last.arg

C7_CorrectionWinsOverPendingCall ==
  (/\ last.op \in {"markAsRead:resolved", "markAsRead:rejected",
                   "markAllAsRead:resolved", "markAllAsRead:rejected"}
   /\ prev.op \in Corrections
   /\ IsNumber(prev.arg)) => unreadCount = prev.arg

\* the HTTP requests and the channel notices issued by the last step
HttpWrites(path) == SelectSeq(out, LAMBDA e : e.ch = "http" /\ e.ev = path)
Notices(event) == SelectSeq(out, LAMBDA e : e.ch = "socket" /\ e.ev = event)

(* C8: every markAsRead / markAllAsRead call issues its HTTP write in every  *)
(* channel state, and emits the matching channel notice exactly when a       *)
(* socket object exists.                                                     *)
C8_WriteThroughInEveryChannelState ==
  /\ last.op \in {"markAsRead", "markAsClicked"} =>
       /\ Len(HttpWrites("/notifications/mark-read")) = 1
       /\ HttpWrites("/notifications/mark-read")[1].arg = last.arg
       /\ Len(Notices("notification:mark-read")) = (IF socket # 0 THEN 1 ELSE 0)
  /\ last.op = "markAllAsRead" =>
       /\ Len(HttpWrites("/notifications/mark-all-read")) = 1
       /\ Len(Notices("notification:mark-all-read")) = (IF socket # 0 THEN 1 ELSE 0)

C8_Witness ==
  /\ last.op = "markAsRead"
  /\ socket # 0
  /\ sockets[socket].st = "exhausted"
  /\ Len(HttpWrites("/notifications/mark-read")) = 1

RECURSIVE AttemptsMade(_)
\* reconnection attempts made so far by the first k sockets of the manager
AttemptsMade(k) == IF k = 0 THEN 0 ELSE sockets[k].attempts + AttemptsMade(k - 1)

(* C9: with a transport that always fails the channel makes exactly          *)
(* reconnectionAttempts reconnection attempts, then is exhausted, has        *)
(* emitted 'reconnect-failed' exactly once and attempts nothing further.     *)
C9_FiveAttemptsOneSignal ==
  (\E s \in 1..Len(sockets) : sockets[s].st = "exhausted") =>
    /\ AttemptsMade(Len(sockets)) = reconnectionAttempts
    /\ failedSignals = 1

\* effects that only a working initialize produces
InitializeEffects(effects) ==
  {i \in 1..Len(effects) :
     effects[i].ch \in {"navigator", "http", "Notification", "pushManager"}}

(* C10: after three initialize calls that each failed, no later step does    *)
(* any work of initialize: nothing is registered, fetched, prompted or       *)
(* connected, the attempt counter stays, and disconnect() changes none of it.*)
C10_DisabledAfterThreeFailures ==
  [][initFailures >= maxInitializationAttempts =>
       /\ initPc' = "idle"
       /\ isInitializing' = FALSE
       /\ initializationAttempts' = initializationAttempts
       /\ initFailures' = initFailures
       /\ sockets' = sockets
       /\ registration' = registration
       /\ vapidPublicKey' = vapidPublicKey
       /\ deviceId' = deviceId
       /\ platform' = platform
       /\ InitializeEffects(out') = {}]_vars

C10_Witness ==
  /\ initFailures = maxInitializationAttempts
  /\ last.op = "initialize:capped"
  /\ socket = 0

(* C11: an initialize call made while another one is in flight changes no    *)
(* field of the manager and starts no I/O: it only returns. The call in      *)
(* flight goes on for its own user, and a call is accepted only by a step    *)
(* that is itself an initialize call made while none is in flight, so the    *)
(* refused call is never run later.                                          *)
C11_ConcurrentInitializeIsNoOp ==
  [][/\ last'.op = "initialize:in-progress" =>
          /\ UNCHANGED <<socket, sockets, deviceId, userId, registration,
                         vapidPublicKey, listeners, unreadCount,
                         initializationAttempts, isInitializing, initPc,
                         initFailures, call, swListeners, visListeners,
                         platform, callVars>>
          /\ out' = Fulfilled("initialize", None)
     /\ initializationAttempts' # initializationAttempts =>
          /\ ~isInitializing
          /\ last'.op = "initialize"
          /\ userId' = last'.arg.v]_vars

C11_Witness ==
  /\ last.op = "initialize:in-progress"
  /\ last.arg = User(2)
  /\ isInitializing
  /\ initPc = "vapid"
  /\ userId = 1
  /\ call.user = 1

(* C12: an initialize call whose push-key fetch failed or timed out, or      *)
(* whose permission request resolved 'denied', makes no push-subscription    *)
(* attempt, and once the permission request has resolved it has reached      *)
(* connectWebSocket().                                                       *)
C12_PushSkippedChannelStillConnects ==
  (call.vapid = "failed" \/ call.permission = "denied") =>
    /\ ~call.getSub
    /\ call.permission # "none" => call.connect

(* C13: an initialize call whose worker registration failed (no support on   *)
(* the platform, or register() rejected) has gone on to the later steps: it  *)
(* has reached connectWebSocket().                                           *)
C13_ChannelConnectsWithoutWorker ==
  call.sw = "failed" => call.connect

\* how the promises of public operations were settled by the last step
Settled(how) == SelectSeq(out, LAMBDA e : e.ch = how)

\* the steps in which an internal step of a public operation has failed
FailedSteps ==
  {"initialize:failed", "vapid:failed", "push:rejected", "send:failed",
   "markAsRead:rejected", "markAllAsRead:rejected", "query:rejected"}

(* C14: no step of initialize, markAsRead, markAsClicked, markAllAsRead,     *)
(* getUnreadNotifications or getNotificationHistory rejects the promise the *)
(* caller holds; a step in which worker registration, a fetch or the        *)
(* subscription fails fulfils that promise, except the failed key fetch,    *)
(* after which the initialize call goes on to the permission request.       *)
C14_PublicOperationsNeverReject ==
  /\ Settled("rejected") = <<>>
  /\ last.op \in FailedSteps \ {"vapid:failed"} => Len(Settled("fulfilled")) = 1
  /\ last.op = "vapid:failed" => (initPc = "permission" /\ isInitializing)

C14_Witness ==
  /\ last.op = "initialize:failed"
  /\ out = Fulfilled("initialize", None)
  /\ pendingReads > 0
  /\ pendingGets["getNotificationHistory"] > 0

(* C15: after a poll of the pending endpoint that resolved with success,     *)
(* unreadCount equals the total the response carried, also when the pending  *)
(* list was empty and the total 0.                                           *)
C15_PollOverwritesWithServerTotal ==
  (last.op = "fetchMissedNotifications:resolved" /\ last.arg # None) =>
    unreadCount = last.arg

(* C16: right after disconnect() the session state is reset: unreadCount is  *)
(* 0, deviceId and userId are null and the manager holds no socket.          *)
C16_DisconnectResetsSession ==
  last.op = "disconnect()" =>
    /\ unreadCount = Num(0)
    /\ deviceId = 0
    /\ userId = 0
    /\ socket = 0

\* the sockets whose transport is open or still being (re)opened, handlers attached
LiveSockets ==
  {s \in 1..Len(sockets) : sockets[s].st \in {"connecting", "connected", "reconnecting"}}

(* C17: at every moment at most one socket created by the manager is live,   *)
(* after any sequence of initialize calls, disconnect() calls and transport  *)
(* events.                                                                   *)
C17_AtMostOneLiveSocket == Cardinality(LiveSockets) <= 1

(* C18: within one initialize call the subscription is attempted only once   *)
(* the permission request has resolved 'granted' and the key fetch of that   *)
(* call has succeeded; pushManager.subscribe is called only when no existing *)
(* subscription was found; the report is sent only in a subscription         *)
(* attempt; and deviceId changes only in the step in which the backend       *)
(* accepts the report.                                                       *)
C18_SubscriptionOrder ==
  [][/\ call'.getSub => (call'.permission = "granted" /\ call'.vapid = "ok")
     /\ call'.subscribe => (call'.getSub /\ ~call'.found)
     /\ call'.send => call'.getSub
     /\ deviceId' # deviceId => (call.send /\ call'.accepted)]_vars

(* C19: the step of a transport connect, the first one or a reconnect, emits *)
(* exactly one 'authenticate' on the channel, and it carries the userId and  *)
(* the deviceId the manager holds at that moment.                            *)
C19_ConnectAuthenticates ==
  last.op \in {"connect", "reconnect"} =>
    /\ Len(Notices("authenticate")) = 1
    /\ Notices("authenticate")[1].arg = [t |-> "auth", v |-> userId, deviceId |-> deviceId]

(* C20: no step of getUnreadNotifications or getNotificationHistory changes  *)
(* unreadCount or any other field of the manager, and a call whose request   *)
(* failed or whose envelope has success = false returns the empty list.      *)
C20_QueriesArePure ==
  [][/\ last'.op \in Queries \cup {"query:resolved", "query:rejected"} =>
          UNCHANGED <<initVars, domVars, channelVars, listeners, unreadCount,
                      pendingReads, pendingAlls, pendingPolls>>
     /\ (\/ last'.op = "query:rejected"
         \/ last'.op = "query:resolved" /\ last'.arg.t = "failure") =>
          \E q \in Queries : out' = Fulfilled(q, List(0))]_vars

C20_Witness ==
  /\ last.op = "query:resolved"
  /\ last.arg = Envelope(FALSE, 2)
  /\ out = Fulfilled("getUnreadNotifications", List(0))
  /\ unreadCount = Num(2)
  /\ last.before = Num(2)

\* what the last step did on a channel, and the part of it with a given name
On_(ch) == SelectSeq(out, LAMBDA e : e.ch = ch)
Did(ch, ev) == SelectSeq(out, LAMBDA e : e.ch = ch /\ e.ev = ev)

(* C21: the worker answers a same-origin API request whose network fetch     *)
(* fails with the JSON envelope {success: false, message: 'Offline'}, and a  *)
(* same-origin request outside the API that is in a cache from that cache,   *)
(* without a network fetch.                                                  *)
C21_OfflineEnvelopeAndCacheFirst ==
  (last.op = "fetch" /\ last.arg.origin = "same") =>
    /\ (IsApi(last.arg.path) /\ ~last.arg.online) =>
         On_("respondWith") = Respond("offline", last.arg.path)
    /\ (~IsApi(last.arg.path) /\ Cached(last.arg.path)) =>
         /\ On_("respondWith") = Respond("cache", last.arg.path)
         /\ On_("network") = <<>>

C21_Witness ==
  /\ last.op = "fetch"
  /\ last.arg = Request("same", "/api/orders", FALSE)
  /\ out = NetworkFetch("/api/orders") \o Respond("offline", "/api/orders")

(* C22: a same-origin request outside the API that is in no cache and whose  *)
(* network fetch fails is answered with the cached /index.html.              *)
C22_ShellWhenCacheAndNetworkMiss ==
  (/\ last.op = "fetch" /\ last.arg.origin = "same"
   /\ ~IsApi(last.arg.path) /\ ~Cached(last.arg.path) /\ ~last.arg.online) =>
    On_("respondWith") = Respond("cache", "/index.html")

C22_Witness ==
  /\ last.op = "fetch"
  /\ last.arg = Request("same", "/orders", FALSE)
  /\ out = NetworkFetch("/orders") \o Respond("cache", "/index.html")

(* C23: a click with action 'dismiss' closes the notification and does       *)
(* nothing else: no matchAll, no focus, no postMessage, no openWindow.       *)
C23_DismissOnlyCloses ==
  (last.op = "notificationclick" /\ last.arg.t = "dismiss") =>
    out = <<Effect("notification", "close", "", None)>>

C23_Witness ==
  /\ last.op = "notificationclick"
  /\ last.arg.t = "dismiss"
  /\ last.arg.v = MaxWindows
  /\ out = <<Effect("notification", "close", "", None)>>

(* C24: a click with any other action, when the origin has an open window,   *)
(* focuses one window, posts exactly one NOTIFICATION_CLICKED message with   *)
(* the url, the notification id and the action to that window, and opens no  *)
(* window; when it has none, it opens one window at the target url and       *)
(* focuses and posts nothing.                                                *)
C24_FocusAndPostOrOpen ==
  (last.op = "notificationclick" /\ last.arg.t # "dismiss") =>
    IF last.arg.v > 0
      THEN /\ Len(Did("client", "focus")) = 1
           /\ Len(Did("client", "postMessage")) = 1
           /\ Did("client", "postMessage")[1].arg = Clicked(last.arg.target, last.arg.t)
           /\ Did("client", "postMessage")[1].to = Did("client", "focus")[1].to
           /\ On_("clients") = <<Effect("clients", "matchAll", "", None)>>
      ELSE /\ On_("client") = <<>>
           /\ Len(Did("clients", "openWindow")) = 1
           /\ Did("clients", "openWindow")[1].arg.url = last.arg.target

C24_Witness ==
  /\ last.op = "notificationclick"
  /\ last.arg = [t |-> "view", v |-> MaxWindows, target |-> "/orders"]
  /\ Len(Did("client", "postMessage")) = 1
  /\ Did("clients", "openWindow") = <<>>

(* C25: when activation completes, every cache with another name than        *)
(* CACHE_NAME has been deleted, the cache named CACHE_NAME is kept with its  *)
(* assets, and the clients are claimed only after the deletions finished.    *)
C25_ActivationCleansThenClaims ==
  /\ swClaimed =>
       /\ swDeleting = {}
       /\ \A c \in OtherCaches : ~swCaches[c].exists
  /\ swState = "activated" =>
       /\ swClaimed
       /\ swCaches[CACHE_NAME].exists
       /\ ASSETS_TO_CACHE \subseteq swCaches[CACHE_NAME].entries

C25_Witness ==
  /\ last.op = "claim"
  /\ swState = "activated"
  /\ out = <<Effect("clients", "claim", "", None)>>
  /\ Cached("/index.html") /\ ~Cached("/old.js")

(* C26: every push event renders exactly one notification in which each of   *)
(* title, body, icon, badge, vibrate, actions and data is the payload's      *)
(* value when the payload has it and the default otherwise; a payload that   *)
(* is not JSON is shown with the default title and its text as body.         *)
C26_PushFieldsDefaultWhenAbsent ==
  last.op = "push" =>
    /\ Len(Did("registration", "showNotification")) = 1
    /\ \A f \in ShownFields :
         Did("registration", "showNotification")[1].arg.from[f] =
           IF last.arg.t = "json" /\ f \in last.arg.fields THEN "payload"
           ELSE IF last.arg.t = "text" /\ f = "body" THEN "text"
           ELSE "default"

(* C27: when the fetch of a periodic sync succeeds, at most three            *)
(* notifications are shown, the first three of the batch in batch order,     *)
(* and afterwards the badge is the count the server reported, also for an    *)
(* empty batch (on a platform with the Badging API).                         *)
C27_CatchUpThenServerBadge ==
  (last.op = "fetchNewNotifications:resolved" /\ last.arg # None) =>
    /\ out = ShowBatch(last.arg.v)
    /\ Len(out) <= CatchUpLimit
    /\ swPlatform.badge => swBadge = SetAppBadge(last.arg.count)

(* C28: on a platform with the Badging API the worker mirrors the badge:     *)
(* messages are handled in the order they were posted; after UPDATE_BADGE    *)
(* the badge shows the posted count when it is greater than 0 and is         *)
(* cleared when it is 0 or absent; after CLEAR_BADGE it is cleared.          *)
C28_WorkerMirrorsBadge ==
  [][(last'.op = "message" /\ swPlatform.badge) =>
       /\ swInbox # <<>>
       /\ last'.arg = Head(swInbox)
       /\ swInbox' = Tail(swInbox)
       /\ Head(swInbox).t = "UPDATE_BADGE" =>
            swBadge' = IF IsNumber(Head(swInbox).v) /\ Head(swInbox).v.v > 0
                         THEN Head(swInbox).v ELSE None
       /\ Head(swInbox).t = "CLEAR_BADGE" => swBadge' = None
       /\ Head(swInbox).t \notin {"UPDATE_BADGE", "CLEAR_BADGE"} =>
            swBadge' = swBadge]_vars

C28_Witness ==
  /\ last.op = "message"
  /\ last.arg = [t |-> "UPDATE_BADGE", v |-> Num(0)]
  /\ swPlatform.badge
  /\ swBadge = None
  /\ swInbox = <<[t |-> "UPDATE_BADGE", v |-> Num(MaxCount)]>>

(* C29: once notificationManager.initialize(userId) has resolved for a       *)
(* mounted component, the hook does not call notificationManager.disconnect  *)
(* while the component stays mounted with the same userId.                   *)
C29_NoDisconnectWhileMounted ==
  [][(hook.mounted /\ hook'.mounted /\ hook.isInitialized) =>
       last'.op # "disconnect()"]_vars

(* C30: a mounted component with a fixed userId calls initialize only        *)
(* finitely often and reaches a stable state: isInitialized stays true, no   *)
(* call is awaited and no run of the effect is scheduled.                    *)
C30_HookSettles ==
  <>[](hook.mounted /\ hook.isInitialized /\ ~hook.awaiting /\ ~hook.effectDue)

(* C31: initializationAttempts goes up by exactly one in every initialize    *)
(* call that passes the in-progress guard and the cap guard, and in no other *)
(* step, whether that call later succeeds or fails; it is never lowered or   *)
(* reset and never exceeds maxInitializationAttempts, so at most three calls *)
(* of one manager do any work.                                               *)
C31_AttemptsCountAcceptedCalls ==
  [][/\ initializationAttempts' \in
          {initializationAttempts, initializationAttempts + 1}
     /\ initializationAttempts' <= maxInitializationAttempts
     /\ (initializationAttempts' = initializationAttempts + 1) <=>
          last'.op = "initialize"
     /\ last'.op \in {"initialize", "initialize:in-progress", "initialize:capped"} =>
          (last'.op = "initialize" <=>
             (~isInitializing /\ initializationAttempts < maxInitializationAttempts))
     /\ last'.op \in {"initialize:in-progress", "initialize:capped"} =>
          InitializeEffects(out') = {}]_vars

C31_Witness ==
  /\ initializationAttempts = maxInitializationAttempts
  /\ initFailures = 1
  /\ call.connect
  /\ last.op = "initialize:capped"

(* C32: however often initialize has completed on the manager, one           *)
(* NOTIFICATION_CLICKED message from the worker causes one mark-read HTTP    *)
(* write and, with a socket, one notification:clicked notice, and one change *)
(* to visible causes one poll.                                               *)
C32_OneHandlerPerEvent ==
  /\ (last.op = "serviceWorker:message" /\ last.arg.t = "NOTIFICATION_CLICKED") =>
       /\ Len(HttpWrites("/notifications/mark-read")) = 1
       /\ socket # 0 => Len(Notices("notification:clicked")) = 1
  /\ (last.op = "visibilitychange" /\ visible /\ visListeners > 0) =>
       Len(HttpWrites("/notifications/pending")) = 1

(* C33: a notification:new event that arrives while markAllAsRead awaits its *)
(* HTTP write is not lost: when the call then completes, with nothing        *)
(* arriving in between, unreadCount is at least 1.                           *)
C33_NewDuringMarkAllSurvives ==
  [][(/\ last.op = "notification:new"
      /\ IsNumber(last.before)
      /\ pendingAlls > 0
      /\ last'.op \in {"markAllAsRead:resolved", "markAllAsRead:rejected"}) =>
       (IsNumber(unreadCount') /\ unreadCount'.v >= 1)]_vars

(* C34: every step that changes unreadCount emits 'unread-count-updated'     *)
(* once and calls updateBadge once, and every such emission and badge update *)
(* carries the unreadCount the step leaves; each listener registered for the *)
(* event is called once with it, so a listener subscribed all along holds    *)
(* the value getUnreadCount() returns.                                       *)
C34_CountChangesAreAnnounced ==
  /\ unreadCount # last.before =>
       /\ Len(Did("emit", "unread-count-updated")) = 1
       /\ Len(Did("worker", "UPDATE_BADGE")) = 1
       /\ Len(On_("navigator")) = 1
  /\ \A i \in 1..Len(out) :
       (out[i].ev = "unread-count-updated" \/ out[i].ev = "UPDATE_BADGE") =>
         out[i].arg = unreadCount
  /\ Did("emit", "unread-count-updated") # <<>> =>
       [i \in 1..Len(Calls("unread-count-updated")) |->
          Calls("unread-count-updated")[i].to] = listeners["unread-count-updated"]

C34_Witness ==
  /\ last.op = "markAsRead:resolved"
  /\ last.before = Num(2)
  /\ unreadCount = Num(1)
  /\ listeners["unread-count-updated"] = <<"cbA", "cbB">>
  /\ Len(Calls("unread-count-updated")) = 2

(* C35: isInitializing is true exactly while an accepted initialize call is  *)
(* between its guards and its completion; an accepted call whose awaited     *)
(* steps settle sets it back to false, on the success path and on the        *)
(* failure path, and an initialize call is refused as 'in progress' only     *)
(* while a call really is in flight.                                         *)
C35_FlagFollowsTheCallInFlight ==
  /\ [](isInitializing <=> initPc # "idle")
  /\ [](last.op = "initialize:in-progress" => initPc # "idle")
  /\ [][(initPc # "idle" /\ initPc' = "idle") =>
          (~isInitializing' /\ Settled("fulfilled")' = Fulfilled("initialize", None))]_vars
  /\ (isInitializing ~> ~isInitializing)

C35_Witness ==
  /\ last.op = "initialize"
  /\ isInitializing
  /\ initializationAttempts = 2
  /\ initFailures = 1
  /\ call.sw = "none"

(* C36: a notification:read-sync event leaves unreadCount and the badge as   *)
(* they were; it only hands the notification id to the listeners of          *)
(* 'notification-read'.                                                      *)
C36_ReadSyncOnlyNotifies ==
  last.op = "notification:read-sync" =>
    /\ unreadCount = last.before
    /\ out = <<Effect("emit", "notification-read", "", last.arg)>> \o
             [i \in 1..Len(listeners["notification-read"]) |->
                Effect("call", "notification-read",
                       listeners["notification-read"][i], last.arg)]

C36_Witness ==
  /\ last.op = "notification:read-sync"
  /\ last.arg = Notif(2)
  /\ unreadCount = Num(MaxCount)
  /\ Len(Calls("notification-read")) = 2
  /\ On_("navigator") = <<>> /\ On_("worker") = <<>>

(* C37: disconnect() removes every listener of every event, whoever          *)
(* registered it, and a step invokes a callback only when that callback is   *)
(* registered for the event at that time; so after disconnect() no emission  *)
(* reaches a callback registered before it until on() registers it again.    *)
C37_DisconnectClearsEveryListener ==
  [][/\ last'.op = "disconnect()" =>
          \A e \in BusEvents : listeners'[e] = <<>>
     /\ \A i \in 1..Len(out') :
          out'[i].ch = "call" =>
            \E j \in 1..Len(listeners[out'[i].ev]) :
              listeners[out'[i].ev][j] = out'[i].to]_vars

C37_Witness ==
  /\ last.op = "disconnect()"
  /\ [i \in 1..Len(Calls("disconnected")) |-> Calls("disconnected")[i].to]
       = <<"cbA", "cbB">>
  /\ \A e \in BusEvents : listeners[e] = <<>>

\* the callbacks a sequence of effects invokes for an event, in order
Invoked(effects, e) ==
  [i \in 1..Len(SelectSeq(effects, LAMBDA x : x.ch = "call" /\ x.ev = e)) |->
     SelectSeq(effects, LAMBDA x : x.ch = "call" /\ x.ev = e)[i].to]

\* how often a sequence of effects emits an event
Emissions(effects, e) ==
  Len(SelectSeq(effects, LAMBDA x : x.ch = "emit" /\ x.ev = e))

\* a step of the bus: each emission of e calls the callbacks registered for e,
\* once per registration and in registration order, and no others; on appends;
\* off removes the earliest registration of the callback and nothing else
BusStep ==
  /\ \A e \in BusEvents :
       Invoked(out', e) = Repeat(Emissions(out', e), listeners[e])
  /\ last'.op = "on" =>
       listeners' = [listeners EXCEPT ![last'.arg.t] = Append(@, last'.arg.cb)]
  /\ last'.op = "off" =>
       /\ \A e \in BusEvents \ {last'.arg.t} : listeners'[e] = listeners[e]
       /\ IF \E i \in 1..Len(listeners[last'.arg.t]) :
               listeners[last'.arg.t][i] = last'.arg.cb
            THEN \E i \in 1..Len(listeners[last'.arg.t]) :
                   /\ listeners[last'.arg.t][i] = last'.arg.cb
                   /\ \A j \in 1..(i - 1) : listeners[last'.arg.t][j] # last'.arg.cb
                   /\ listeners'[last'.arg.t] =
                        [k \in 1..(Len(listeners[last'.arg.t]) - 1) |->
                           IF k < i THEN listeners[last'.arg.t][k]
                           ELSE listeners[last'.arg.t][k + 1]]
            ELSE listeners'[last'.arg.t] = listeners[last'.arg.t]

\* the listener list after on(e, cb) directly followed by off(e, cb)
OnThenOff(seq, cb) == Splice(Append(seq, cb), IndexOf(Append(seq, cb), cb))

(* C38, as stated: emit calls the callbacks of the event once per            *)
(* registration in registration order and no others, off removes the         *)
(* earliest registration of the callback, and on(e, cb) directly followed by *)
(* off(e, cb) restores the listener list there was before.                   *)
C38_OnThenOffRestores ==
  /\ [][BusStep]_vars
  /\ [](\A e \in BusEvents, cb \in Callbacks :
          OnThenOff(listeners[e], cb) = listeners[e])

(* C38, amended: emit and off as stated; on(e, cb) directly followed by      *)
(* off(e, cb) restores the listener list when cb was not registered for e    *)
(* before; when it was, the pair removes its earliest registration and       *)
(* leaves cb registered last.                                                *)
C38_OnThenOffRestoresUnlessRegistered ==
  /\ [][BusStep]_vars
  /\ [](\A e \in BusEvents, cb \in Callbacks :
          OnThenOff(listeners[e], cb) =
            IF \E i \in 1..Len(listeners[e]) : listeners[e][i] = cb
              THEN Append(Splice(listeners[e], IndexOf(listeners[e], cb)), cb)
              ELSE listeners[e])

C38_Witness ==
  /\ last.op = "off"
  /\ last.arg = [t |-> "notification-read", v |-> 0, cb |-> "cbA"]
  /\ listeners["notification-read"] = <<"cbB">>
  /\ listeners["disconnected"] = <<"cbA", "cbB">>
  /\ OnThenOff(listeners["disconnected"], "cbA") = <<"cbB", "cbA">>

====
